---- MODULE Spec2Model ----
(***************************************************************************)
(* Verification model of the pokemon-online export pipeline:               *)
(*   - update_zone_coordinates.py : the map-graph coordinate solver        *)
(*   - create_zones_and_tiles.py  : 2bpp decoding, quadrant images, dedup  *)
(*   - export_map.py              : maps / tiles_raw population            *)
(*   - update_object_coordinates.py : global coordinates of the objects    *)
(***************************************************************************)
EXTENDS Integers, Sequences, FiniteSets, TLC

(***************************************************************************)
(* Bounds of the model                                                     *)
(***************************************************************************)
MaxMapId == 2        \* map ids are 0..MaxMapId
MaxConns == 2        \* rows of the map_connections table
MaxOffset == 1       \* lateral connection offsets are -MaxOffset..MaxOffset
MaxRuns == 2         \* invocations of process_map_connections
MaxByte == 255       \* the bytes of a tile buffer are 0..MaxByte
MaxBlocks == 4       \* block rows of the largest blockset of the model
MaxBlockIndex == 1   \* the bytes of a .blk file are 0..MaxBlockIndex
MaxObjects == 2      \* rows of the objects table

(***************************************************************************)
(* Program constants                                                       *)
(***************************************************************************)
PALLET_TOWN_MAP_ID == 0
BLOCK_SIZE == 2

VARIABLES
    maps,             \* maps table: the set of map ids that have a row
    map_dims,         \* maps table: id -> <<width, height>> in blocks
    tiles,            \* tiles table: map id -> set of [local_x, local_y, x, y]
    map_connections,  \* map_connections table, in rowid order
    map_queue,        \* process_map_connections: map_queue
    processed_maps,   \* process_map_connections: processed_maps
    pc,               \* "idle" | "running" | "done" | "crashed"
    runs,             \* number of solver runs started
    printed,          \* the "Updated ... with offsets" lines of the current run
    discovered,       \* log of the queue appends of the current run
    prev_tiles,       \* tiles table as the previous run left it
    tile_data,        \* decode_2bpp_tile: the tile buffer passed in
    pixels,           \* decode_2bpp_tile: the matrix returned
    decode_pc,        \* "ready" | "decoded" | "raised"
    tilesets,         \* tilesets table: the ids, in the order the SELECT returns them
    blocksets,        \* blocksets table: tileset id -> blocks, by block_index
    tileset_tiles,    \* tileset_tiles table: tileset id -> tile buffers, by tile_index
    image_hash_to_id, \* extract_tile_images: image_hash_to_id
    block_pos_to_image_id, \* extract_tile_images: block_pos_to_image_id
    tile_images,      \* tile_images table, in rowid order
    image_files,      \* the files of tile_images/: number n of tile_n.png -> image
    counters,         \* unique_image_count, duplicate_count, tile_image_count
    loop_pos,         \* <<tileset row, block_index, pos_index>> of the next iteration
    extract_pc,       \* "idle" | "running" | "done" | "raised"
    interned,         \* log of the images hashed so far and the ids they got
    map_constants,    \* export_map: the map of map_constants, [id, name, width, height]
    map_header,       \* export_map: <<tileset id>> of the map's header, <<>> for None
    map_data,         \* export_map: the bytes of the map's .blk file, <<>> without one
    maps_table,       \* maps table rows as export_map inserts them
    tiles_raw,        \* tiles_raw table, in rowid order
    map_positions,    \* overworld_map_positions table: map_name -> <<x_offset, y_offset>>
    tiles_table,      \* tiles table rows as populate_tiles inserts them
    export_pc,        \* "source" | "exported" | "populated"
    objects,          \* objects table rows: [map_id, local_x, local_y, x, y]
    is_overworld,     \* maps table: id -> is_overworld, 1 or 0
    object_pc,        \* "idle" | "ready" | "updated" | "dry_run"
    viewer_map_positions, \* calculate_map_positions: map id -> <<x, y>> returned
    viewer_pc         \* "idle" | "calculated"

solver_vars == <<maps, map_dims, tiles, map_connections, map_queue,
                 processed_maps, pc, runs, printed, discovered, prev_tiles>>

decode_vars == <<tile_data, pixels, decode_pc>>

extract_vars == <<tilesets, blocksets, tileset_tiles, image_hash_to_id,
                  block_pos_to_image_id, tile_images, image_files, counters,
                  loop_pos, extract_pc, interned>>

export_vars == <<map_constants, map_header, map_data, maps_table, tiles_raw,
                 map_positions, tiles_table, export_pc>>

object_vars == <<objects, is_overworld, object_pc>>

viewer_vars == <<viewer_map_positions, viewer_pc>>

vars == <<solver_vars, decode_vars, extract_vars, export_vars, object_vars,
          viewer_vars>>

MapIds == 0..MaxMapId
Directions == {"north", "south", "east", "west"}
Offsets == (0 - MaxOffset)..MaxOffset

SetMin(S) == CHOOSE v \in S : \A w \in S : v <= w
SetMax(S) == CHOOSE v \in S : \A w \in S : v >= w

\* The elements of S in ascending order.
RECURSIVE Ascending(_)
Ascending(S) ==
    IF S = {} THEN <<>> ELSE <<SetMin(S)>> \o Ascending(S \ {SetMin(S)})

\* f with every key of keys bound to v.
Bind(f, keys, v) ==
    [k \in DOMAIN f \cup keys |-> IF k \in keys THEN v ELSE f[k]]

(***************************************************************************)
(* Tables                                                                  *)
(***************************************************************************)
\* The maps of the model: map 0 is a 2x2 town, map 1 a 2x3 route; every other
\* map is absent from the maps table, or has a row but no tile instances, or
\* is a 1x1 or a 2x3 map with all of its tile instances, or is a 2x2 map
\* whose first block column has no tile instances (populate_tiles creates
\* none for a block without images), as the town can be too.  first_col is
\* the first block column that has tile instances.
MapChoices(m) ==
    IF m = 0 THEN {[row |-> TRUE, width |-> 2, height |-> 2, has_tiles |-> TRUE,
                    first_col |-> 0],
                   [row |-> TRUE, width |-> 2, height |-> 2, has_tiles |-> TRUE,
                    first_col |-> 1]}
    ELSE IF m = 1 THEN {[row |-> TRUE, width |-> 2, height |-> 3,
                         has_tiles |-> TRUE, first_col |-> 0]}
    ELSE {[row |-> FALSE, width |-> 1, height |-> 1, has_tiles |-> FALSE,
           first_col |-> 0],
          [row |-> TRUE, width |-> 1, height |-> 1, has_tiles |-> FALSE,
           first_col |-> 0],
          [row |-> TRUE, width |-> 1, height |-> 1, has_tiles |-> TRUE,
           first_col |-> 0],
          [row |-> TRUE, width |-> 2, height |-> 3, has_tiles |-> TRUE,
           first_col |-> 0],
          [row |-> TRUE, width |-> 2, height |-> 2, has_tiles |-> TRUE,
           first_col |-> 1]}

\* The tile instances populate_tiles creates for a map of w x h blocks:
\* global coordinates start equal to the local ones.
FreshTiles(w, h) ==
    {[local_x |-> lx, local_y |-> ly, x |-> lx, y |-> ly] :
        lx \in 0..(w * BLOCK_SIZE - 1), ly \in 0..(h * BLOCK_SIZE - 1)}

\* Rows of map_connections: the four directions with every offset, and a
\* direction outside the four with offset 0.
ConnectionRows ==
    [from_map_id : MapIds, to_map_id : MapIds,
     direction : Directions, offset : Offsets]
    \cup [from_map_id : MapIds, to_map_id : MapIds,
          direction : {"up"}, offset : {0}]

(***************************************************************************)
(* update_zone_coordinates.py                                              *)
(***************************************************************************)
\* The mutant of get_map_dimensions: the "+ 1" is missing.
get_map_dimensions_short(t, map_id) ==
    IF t[map_id] = {} THEN <<>>
    ELSE LET xs == {r.x : r \in t[map_id]}
             ys == {r.y : r \in t[map_id]}
         IN <<SetMax(xs) - SetMin(xs), SetMax(ys) - SetMin(ys)>>

\* SELECT MAX(x) - MIN(x) + 1, MAX(y) - MIN(y) + 1 FROM tiles WHERE map_id = ?
\* An aggregate over no rows yields (NULL, NULL): modelled as <<>>.
get_map_dimensions(t, map_id) ==
    IF t[map_id] = {} THEN <<>>
    ELSE LET xs == {r.x : r \in t[map_id]}
             ys == {r.y : r \in t[map_id]}
         IN <<SetMax(xs) - SetMin(xs) + 1, SetMax(ys) - SetMin(ys) + 1>>

\* The mutant of update_map_coordinates: the WHERE clause is missing, the
\* tiles of every map are moved.
update_map_coordinates_everywhere(t, map_id, x_offset, y_offset) ==
    [m \in DOMAIN t |->
        {[r EXCEPT !.x = r.x + x_offset, !.y = r.y + y_offset] : r \in t[m]}]

\* The mutant of update_map_coordinates: only the tiles of the first local row
\* of the map are moved.
update_map_coordinates_firstrow(t, map_id, x_offset, y_offset) ==
    [t EXCEPT ![map_id] =
        {IF r.local_y = 0
         THEN [r EXCEPT !.x = r.x + x_offset, !.y = r.y + y_offset]
         ELSE r : r \in t[map_id]}]

\* UPDATE tiles SET x = x + ?, y = y + ? WHERE map_id = ?
update_map_coordinates(t, map_id, x_offset, y_offset) ==
    [t EXCEPT ![map_id] =
        {[r EXCEPT !.x = r.x + x_offset, !.y = r.y + y_offset] : r \in t[map_id]}]

\* The mutant of reset_to_origin: the reset step is left out.
reset_skipped(t, map_id) == t

\* "First, reset the map to its original position (0,0)": SELECT MIN(x), MIN(y)
\* and update_map_coordinates(conn, current_map_id, -min_x, -min_y).
reset_to_origin(t, map_id) ==
    LET min_x == SetMin({r.x : r \in t[map_id]})
        min_y == SetMin({r.y : r \in t[map_id]})
    IN update_map_coordinates(t, map_id, 0 - min_x, 0 - min_y)

\* SELECT name FROM maps WHERE id = ?  (names are identified with ids; the
\* result is <<>> when the map has no row)
get_map_name(map_id) == IF map_id \in maps THEN <<map_id>> ELSE <<>>

\* The mutant of get_map_id_by_name: a name without a maps row resolves too.
get_map_id_by_name_unchecked(map_name) == <<map_name>>

\* SELECT id FROM maps WHERE name = ?
get_map_id_by_name(map_name) == IF map_name \in maps THEN <<map_name>> ELSE <<>>

\* The mutant of calculate_map_offset: north and south use the formulas of
\* the other direction.
calculate_map_offset_swapped(t, from_map_id, to_map_id, direction, connection_offset) ==
    LET from_dim == get_map_dimensions(t, from_map_id)
        to_dim == get_map_dimensions(t, to_map_id)
    IN CASE direction = "north" ->
              IF from_dim = <<>> THEN <<>>
              ELSE <<connection_offset * BLOCK_SIZE, from_dim[2]>>
         [] direction = "south" ->
              IF to_dim = <<>> THEN <<>>
              ELSE <<connection_offset * BLOCK_SIZE, 0 - to_dim[2]>>
         [] direction = "east" ->
              IF from_dim = <<>> THEN <<>>
              ELSE <<from_dim[1], connection_offset * BLOCK_SIZE>>
         [] direction = "west" ->
              IF to_dim = <<>> THEN <<>>
              ELSE <<0 - to_dim[1], connection_offset * BLOCK_SIZE>>
         [] OTHER -> <<0, 0>>

\* The mutant of calculate_map_offset: north subtracts the height of the map
\* the connection starts from.
calculate_map_offset_fromheight(t, from_map_id, to_map_id, direction, connection_offset) ==
    LET from_dim == get_map_dimensions(t, from_map_id)
        to_dim == get_map_dimensions(t, to_map_id)
    IN CASE direction = "north" ->
              IF from_dim = <<>> THEN <<>>
              ELSE <<connection_offset * BLOCK_SIZE, 0 - from_dim[2]>>
         [] direction = "south" ->
              IF from_dim = <<>> THEN <<>>
              ELSE <<connection_offset * BLOCK_SIZE, from_dim[2]>>
         [] direction = "east" ->
              IF from_dim = <<>> THEN <<>>
              ELSE <<from_dim[1], connection_offset * BLOCK_SIZE>>
         [] direction = "west" ->
              IF to_dim = <<>> THEN <<>>
              ELSE <<0 - to_dim[1], connection_offset * BLOCK_SIZE>>
         [] OTHER -> <<0, 0>>

\* The mutant of calculate_map_offset: east and west read the heights where
\* the widths belong.
calculate_map_offset_nowidth(t, from_map_id, to_map_id, direction, connection_offset) ==
    LET from_dim == get_map_dimensions(t, from_map_id)
        to_dim == get_map_dimensions(t, to_map_id)
    IN CASE direction = "north" ->
              IF to_dim = <<>> THEN <<>>
              ELSE <<connection_offset * BLOCK_SIZE, 0 - to_dim[2]>>
         [] direction = "south" ->
              IF from_dim = <<>> THEN <<>>
              ELSE <<connection_offset * BLOCK_SIZE, from_dim[2]>>
         [] direction = "east" ->
              IF from_dim = <<>> THEN <<>>
              ELSE <<from_dim[2], connection_offset * BLOCK_SIZE>>
         [] direction = "west" ->
              IF to_dim = <<>> THEN <<>>
              ELSE <<0 - to_dim[2], connection_offset * BLOCK_SIZE>>
         [] OTHER -> <<0, 0>>

\* calculate_map_offset: <<x_offset, y_offset>>, or <<>> when the arithmetic
\* on a NULL dimension raises TypeError.
calculate_map_offset(t, from_map_id, to_map_id, direction, connection_offset) ==
    LET from_dim == get_map_dimensions(t, from_map_id)
        to_dim == get_map_dimensions(t, to_map_id)
    IN CASE direction = "north" ->
              IF to_dim = <<>> THEN <<>>
              ELSE <<connection_offset * BLOCK_SIZE, 0 - to_dim[2]>>
         [] direction = "south" ->
              IF from_dim = <<>> THEN <<>>
              ELSE <<connection_offset * BLOCK_SIZE, from_dim[2]>>
         [] direction = "east" ->
              IF from_dim = <<>> THEN <<>>
              ELSE <<from_dim[1], connection_offset * BLOCK_SIZE>>
         [] direction = "west" ->
              IF to_dim = <<>> THEN <<>>
              ELSE <<0 - to_dim[1], connection_offset * BLOCK_SIZE>>
         [] OTHER -> <<0, 0>>

\* The direction flip of the "reverse connection" branch.
ReverseDirection(direction) ==
    CASE direction = "north" -> "south"
      [] direction = "south" -> "north"
      [] direction = "east" -> "west"
      [] direction = "west" -> "east"
      [] OTHER -> direction

\* SELECT to_map_id, direction, offset FROM map_connections WHERE from_map_id = ?
outgoing_connections(map_name) ==
    IF map_name = <<>> THEN <<>>
    ELSE LET Out(c) == c.from_map_id = map_name[1]
             rows == SelectSeq(map_connections, Out)
         IN [i \in 1..Len(rows) |->
                [connected_map_name |-> rows[i].to_map_id,
                 direction |-> rows[i].direction, offset |-> rows[i].offset]]

\* SELECT from_map_id, direction, offset FROM map_connections WHERE to_map_id = ?
incoming_connections(map_name) ==
    IF map_name = <<>> THEN <<>>
    ELSE LET In(c) == c.to_map_id = map_name[1]
             rows == SelectSeq(map_connections, In)
         IN [i \in 1..Len(rows) |->
                [connected_map_name |-> rows[i].from_map_id,
                 direction |-> rows[i].direction, offset |-> rows[i].offset]]

\* The body of "for connections in [outgoing, incoming]: for ... in connections"
\* from row i on.  st = [queue, log, crashed].
RECURSIVE ProcessConnections(_, _, _, _, _, _, _)
ProcessConnections(conns, i, t, cur, map_name, done, st) ==
    IF i > Len(conns) \/ st.crashed THEN st
    ELSE
      LET c == conns[i]
          connected_map_id == get_map_id_by_name(c.connected_map_name)
      IN
        \* "if not connected_map_id or connected_map_id in processed_maps":
        \* None and the id 0 are both falsy.
        IF connected_map_id = <<>> \/ connected_map_id[1] = 0
              \/ connected_map_id[1] \in done
        THEN ProcessConnections(conns, i + 1, t, cur, map_name, done, st)
        ELSE
          LET direction == IF <<c.connected_map_name>> = map_name
                           THEN ReverseDirection(c.direction)
                           ELSE c.direction
              off == calculate_map_offset(t, cur.map_id, connected_map_id[1],
                                          direction, c.offset)
          IN IF off = <<>>
             THEN [st EXCEPT !.crashed = TRUE]
             ELSE
               LET new_x_offset == cur.x_offset + off[1]
                   new_y_offset == cur.y_offset + off[2]
                   entry == [map_id |-> connected_map_id[1],
                             x_offset |-> new_x_offset,
                             y_offset |-> new_y_offset]
                   note == [from_map_id |-> cur.map_id,
                            to_map_id |-> connected_map_id[1],
                            direction |-> direction,
                            offset |-> c.offset,
                            from_x |-> cur.x_offset, from_y |-> cur.y_offset,
                            x_offset |-> new_x_offset,
                            y_offset |-> new_y_offset]
               IN ProcessConnections(conns, i + 1, t, cur, map_name, done,
                      [st EXCEPT !.queue = Append(@, entry),
                                 !.log = Append(@, note)])

(***************************************************************************)
(* Solver actions                                                          *)
(***************************************************************************)
\* The state of the solver before any run, with no maps.
SolverIdle ==
    /\ maps = {}
    /\ map_dims = <<>>
    /\ tiles = <<>>
    /\ map_connections = <<>>
    /\ map_queue = <<>>
    /\ processed_maps = {}
    /\ pc = "idle"
    /\ runs = 0
    /\ printed = <<>>
    /\ discovered = <<>>
    /\ prev_tiles = <<>>

\* update_object_coordinates has not been set up.
ObjectIdle ==
    /\ objects = <<>>
    /\ is_overworld = <<>>
    /\ object_pc = "idle"

\* The viewer has not calculated map positions.
ViewerIdle ==
    /\ viewer_map_positions = <<>>
    /\ viewer_pc = "idle"

\* No tile is being decoded.
DecodeIdle ==
    /\ tile_data = <<>>
    /\ pixels = <<>>
    /\ decode_pc = "ready"

\* extract_tile_images has not been called and the asset tables are empty.
ExtractIdle ==
    /\ tilesets = <<>>
    /\ blocksets = <<>>
    /\ tileset_tiles = <<>>
    /\ image_hash_to_id = <<>>
    /\ block_pos_to_image_id = <<>>
    /\ tile_images = <<>>
    /\ image_files = <<>>
    /\ counters = <<>>
    /\ loop_pos = <<>>
    /\ extract_pc = "idle"
    /\ interned = <<>>

\* The state of the export pipeline while another component runs.
ExportIdle ==
    /\ map_constants = <<>>
    /\ map_header = <<>>
    /\ map_data = <<>>
    /\ maps_table = <<>>
    /\ tiles_raw = <<>>
    /\ map_positions = <<>>
    /\ tiles_table = <<>>
    /\ export_pc = "source"

SolverInit ==
    /\ ViewerIdle
    /\ DecodeIdle
    /\ ExtractIdle
    /\ ExportIdle
    /\ ObjectIdle
    /\ \E world \in [MapIds -> UNION {MapChoices(m) : m \in MapIds}] :
          /\ \A m \in MapIds : world[m] \in MapChoices(m)
          /\ maps = {m \in MapIds : world[m].row}
          /\ map_dims = [m \in maps |-> <<world[m].width, world[m].height>>]
          /\ tiles = [m \in MapIds |->
                        IF world[m].has_tiles
                        THEN {r \in FreshTiles(world[m].width, world[m].height) :
                                r.local_x >= world[m].first_col * BLOCK_SIZE}
                        ELSE {}]
    /\ \E n \in 0..MaxConns : map_connections \in [1..n -> ConnectionRows]
    /\ map_queue = <<>>
    /\ processed_maps = {}
    /\ pc = "idle"
    /\ runs = 0
    /\ printed = <<>>
    /\ discovered = <<>>
    /\ prev_tiles = tiles

\* process_map_connections is called: lines 190-196.
StartRun ==
    /\ pc \in {"idle", "done", "crashed"}
    /\ runs < MaxRuns
    /\ runs' = runs + 1
    /\ prev_tiles' = tiles
    /\ processed_maps' = {}
    /\ map_queue' = <<[map_id |-> PALLET_TOWN_MAP_ID, x_offset |-> 0, y_offset |-> 0]>>
    /\ printed' = <<>>
    /\ discovered' = <<>>
    /\ pc' = "running"
    /\ UNCHANGED <<maps, map_dims, tiles, map_connections>>
    /\ UNCHANGED <<decode_vars, extract_vars, export_vars, object_vars, viewer_vars>>

\* The mutant of SkipProcessed: the entry of a map processed before goes
\* back to the end of the queue.
SkipProcessed_requeued ==
    /\ pc = "running"
    /\ map_queue # <<>>
    /\ Head(map_queue).map_id \in processed_maps
    /\ map_queue' = Append(Tail(map_queue), Head(map_queue))
    /\ UNCHANGED <<maps, map_dims, tiles, map_connections, processed_maps, pc,
                   runs, printed, discovered, prev_tiles>>
    /\ UNCHANGED <<decode_vars, extract_vars, export_vars, object_vars, viewer_vars>>

\* One iteration of the while loop whose map was processed before: "continue".
SkipProcessed ==
    /\ pc = "running"
    /\ map_queue # <<>>
    /\ Head(map_queue).map_id \in processed_maps
    /\ map_queue' = Tail(map_queue)
    /\ UNCHANGED <<maps, map_dims, tiles, map_connections, processed_maps, pc,
                   runs, printed, discovered, prev_tiles>>
    /\ UNCHANGED <<decode_vars, extract_vars, export_vars, object_vars, viewer_vars>>

\* One iteration of the while loop that places a map: lines 199-275.
PlaceMap ==
    /\ pc = "running"
    /\ map_queue # <<>>
    /\ Head(map_queue).map_id \notin processed_maps
    /\ \E cur \in {Head(map_queue)}, rest \in {Tail(map_queue)} :
          IF tiles[cur.map_id] = {}
          THEN \* MIN(x) is NULL: "-min_x" raises TypeError
               /\ pc' = "crashed"
               /\ map_queue' = rest
               /\ UNCHANGED <<tiles, processed_maps, printed, discovered>>
          ELSE
            \E reset \in {reset_to_origin(tiles, cur.map_id)} :
            \E moved \in {update_map_coordinates(reset, cur.map_id,
                                                  cur.x_offset, cur.y_offset)} :
            \E map_name \in {get_map_name(cur.map_id)} :
            \E done \in {processed_maps \cup {cur.map_id}} :
            \E conns \in {outgoing_connections(map_name)
                             \o incoming_connections(map_name)} :
            \E res \in {ProcessConnections(conns, 1, moved, cur, map_name, done,
                          [queue |-> rest, log |-> discovered, crashed |-> FALSE])} :
               /\ tiles' = moved
               /\ processed_maps' = done
               /\ printed' = Append(printed, cur)
               /\ map_queue' = res.queue
               /\ discovered' = res.log
               /\ pc' = IF res.crashed THEN "crashed" ELSE "running"
    /\ UNCHANGED <<maps, map_dims, map_connections, runs, prev_tiles>>
    /\ UNCHANGED <<decode_vars, extract_vars, export_vars, object_vars, viewer_vars>>

\* The while loop ends: lines 277-278.
FinishRun ==
    /\ pc = "running"
    /\ map_queue = <<>>
    /\ pc' = "done"
    /\ UNCHANGED <<maps, map_dims, tiles, map_connections, map_queue,
                   processed_maps, runs, printed, discovered, prev_tiles>>
    /\ UNCHANGED <<decode_vars, extract_vars, export_vars, object_vars, viewer_vars>>

SolverNext == StartRun \/ SkipProcessed \/ PlaceMap \/ FinishRun

SolverSpec == SolverInit /\ [][SolverNext]_vars

\* The worlds of the termination check: every map has its row and the tile
\* instances of its first block column, map 2 with or without tile instances.
LiveChoices(m) == {c \in MapChoices(m) : c.row /\ c.first_col = 0}

\* The connection rows of the termination check: the shape of the graph is
\* what the loop's termination depends on, so one lateral offset and one
\* direction per axis are kept.  Self-connections, mutual connections and
\* cycles are among them.
LiveConnectionRows ==
    {r \in ConnectionRows : r.offset = 0 /\ r.direction \in {"north", "west"}}

SolverLiveInit ==
    /\ ViewerIdle
    /\ DecodeIdle
    /\ ExtractIdle
    /\ ExportIdle
    /\ ObjectIdle
    /\ \E world \in [MapIds -> UNION {LiveChoices(m) : m \in MapIds}] :
          /\ \A m \in MapIds : world[m] \in LiveChoices(m)
          /\ maps = MapIds
          /\ map_dims = [m \in maps |-> <<world[m].width, world[m].height>>]
          /\ tiles = [m \in MapIds |->
                        IF world[m].has_tiles
                        THEN FreshTiles(world[m].width, world[m].height)
                        ELSE {}]
    /\ \E n \in 0..MaxConns : map_connections \in [1..n -> LiveConnectionRows]
    /\ map_queue = <<>>
    /\ processed_maps = {}
    /\ pc = "idle"
    /\ runs = 0
    /\ printed = <<>>
    /\ discovered = <<>>
    /\ prev_tiles = tiles

\* The while loop of a run that was started goes on executing: the script is
\* sequential code, so an iteration that can be taken is taken.
SolverLiveSpec ==
    /\ SolverLiveInit
    /\ [][SolverNext]_vars
    /\ WF_vars(SkipProcessed \/ PlaceMap \/ FinishRun)

(***************************************************************************)
(* viewer/tile_viewer.py: calculate_map_positions                          *)
(***************************************************************************)
\* maps_in_zones: the ids of the maps rows, in rowid order; the first is the
\* root map.
maps_in_zones == Ascending(maps)

\* map_dimensions[map_id]: <<width * 2, height * 2>>, lines 288-295.
map_dimensions(map_id) == <<map_dims[map_id][1] * 2, map_dims[map_id][2] * 2>>

\* get_map_connections()[from_map_id]: the rows of a map, in rowid order.
connections_from(from_map_id) ==
    LET From(c) == c.from_map_id = from_map_id
    IN SelectSeq(map_connections, From)

\* Lines 334-354: <<new_x, new_y>>, or <<>> for a direction outside the four
\* ("continue").
viewer_new_position(current_pos, current_map_id, to_map_id, direction, offset) ==
    CASE direction = "north" ->
            <<current_pos[1] + offset, current_pos[2] + map_dimensions(current_map_id)[2]>>
      [] direction = "south" ->
            <<current_pos[1] + offset, current_pos[2] - map_dimensions(to_map_id)[2]>>
      [] direction = "west" ->
            <<current_pos[1] - map_dimensions(to_map_id)[1], current_pos[2] + offset>>
      [] direction = "east" ->
            <<current_pos[1] + map_dimensions(current_map_id)[1], current_pos[2] + offset>>
      [] OTHER -> <<>>

\* "for connection in map_connections[current_map_id]" from row i on, lines
\* 324-363.  st = [queue, processed, map_positions].
RECURSIVE viewer_connections(_, _, _, _)
viewer_connections(conns, i, current_map_id, st) ==
    IF i > Len(conns) THEN st
    ELSE
      LET to_map_id == conns[i].to_map_id
          new == viewer_new_position(st.map_positions[current_map_id],
                                     current_map_id, to_map_id,
                                     conns[i].direction, conns[i].offset * 2)
      IN IF to_map_id \notin maps \/ to_map_id \in st.processed \/ new = <<>>
         THEN viewer_connections(conns, i + 1, current_map_id, st)
         ELSE viewer_connections(conns, i + 1, current_map_id,
                  [queue |-> Append(st.queue, to_map_id),
                   processed |-> st.processed \cup {to_map_id},
                   map_positions |-> Bind(st.map_positions, {to_map_id}, new)])

\* The while loop of lines 311-363.
RECURSIVE viewer_search(_)
viewer_search(st) ==
    IF st.queue = <<>> THEN st.map_positions
    ELSE LET current_map_id == Head(st.queue)
             rest == [st EXCEPT !.queue = Tail(@)]
         IN IF current_map_id \notin maps THEN viewer_search(rest)
            ELSE viewer_search(viewer_connections(connections_from(current_map_id),
                                                  1, current_map_id, rest))

\* Lines 365-388 from map i of maps_in_zones on: the maps without a position
\* are put in a grid.
RECURSIVE viewer_grid(_, _, _, _, _)
viewer_grid(i, map_positions_so_far, grid_x, grid_y, max_width) ==
    IF i > Len(maps_in_zones) THEN map_positions_so_far
    ELSE
      LET map_id == maps_in_zones[i]
      IN IF map_id \in DOMAIN map_positions_so_far
         THEN viewer_grid(i + 1, map_positions_so_far, grid_x, grid_y, max_width)
         ELSE
           LET placed == Bind(map_positions_so_far, {map_id}, <<grid_x, grid_y>>)
               widest == IF map_dimensions(map_id)[1] > max_width
                         THEN map_dimensions(map_id)[1] ELSE max_width
               next_y == grid_y + map_dimensions(map_id)[2] + 5
           IN IF next_y > 100
              THEN viewer_grid(i + 1, placed, grid_x + widest + 5, 0, 0)
              ELSE viewer_grid(i + 1, placed, grid_x, next_y, widest)

\* calculate_map_positions(maps_in_zones, map_connections), lines 282-390.
calculate_map_positions ==
    /\ viewer_pc = "idle"
    /\ viewer_map_positions' =
          IF maps_in_zones = <<>> THEN <<>>
          ELSE LET root_map_id == maps_in_zones[1]
               IN viewer_grid(1,
                      viewer_search([queue |-> <<root_map_id>>,
                                     processed |-> {root_map_id},
                                     map_positions |-> Bind(<<>>, {root_map_id}, <<0, 0>>)]),
                      0, 0, 0)
    /\ viewer_pc' = "calculated"
    /\ UNCHANGED <<solver_vars, decode_vars, extract_vars, export_vars, object_vars>>

\* The worlds in which every map has its row and all of its tiles.
AllTilesChoices(m) ==
    {c \in MapChoices(m) : c.row /\ c.has_tiles /\ c.first_col = 0}

\* The database both solvers read: every map with all of its tiles.
SolversInit ==
    /\ ViewerIdle
    /\ DecodeIdle
    /\ ExtractIdle
    /\ ExportIdle
    /\ ObjectIdle
    /\ \E world \in [MapIds -> UNION {AllTilesChoices(m) : m \in MapIds}] :
          /\ \A m \in MapIds : world[m] \in AllTilesChoices(m)
          /\ maps = MapIds
          /\ map_dims = [m \in maps |-> <<world[m].width, world[m].height>>]
          /\ tiles = [m \in MapIds |->
                        FreshTiles(world[m].width, world[m].height)]
    /\ \E n \in 0..MaxConns : map_connections \in [1..n -> ConnectionRows]
    /\ map_queue = <<>>
    /\ processed_maps = {}
    /\ pc = "idle"
    /\ runs = 0
    /\ printed = <<>>
    /\ discovered = <<>>
    /\ prev_tiles = tiles

SolversNext == SolverNext \/ calculate_map_positions

SolversSpec == SolversInit /\ [][SolversNext]_vars

(***************************************************************************)
(* create_zones_and_tiles.py: decode_2bpp_tile                             *)
(***************************************************************************)
Bytes == 0..MaxByte

\* v >> n and v & 1 on non-negative integers.
ShiftRight(v, n) == v \div (2 ^ n)
AndOne(v) == v % 2

\* (a << 1) | b for a bit b.
ShiftLeftOr(a, b) == IF b = 1 /\ (a * 2) % 2 = 0 THEN a * 2 + 1 ELSE a * 2

\* The mutant of decode_2bpp_tile: the bits are read from LSB to MSB.
decode_2bpp_tile_lsb_first(data) ==
    IF Len(data) < 16 THEN <<>>
    ELSE [row \in 1..8 |->
            LET byte1 == data[(row - 1) * 2 + 1]
                byte2 == data[(row - 1) * 2 + 2]
            IN [bit \in 1..8 |->
                  LET bit_pos == bit - 1
                      bit1 == AndOne(ShiftRight(byte1, bit_pos))
                      bit2 == AndOne(ShiftRight(byte2, bit_pos))
                  IN ShiftLeftOr(bit2, bit1)]]

\* The mutant of decode_2bpp_tile: the two bytes of a row change roles.
decode_2bpp_tile_swapped(data) ==
    IF Len(data) < 16 THEN <<>>
    ELSE [row \in 1..8 |->
            LET byte1 == data[(row - 1) * 2 + 2]
                byte2 == data[(row - 1) * 2 + 1]
            IN [bit \in 1..8 |->
                  LET bit_pos == 7 - (bit - 1)
                      bit1 == AndOne(ShiftRight(byte1, bit_pos))
                      bit2 == AndOne(ShiftRight(byte2, bit_pos))
                  IN ShiftLeftOr(bit2, bit1)]]

\* decode_2bpp_tile: the 8x8 matrix of pixel values, rows and columns
\* numbered from 1; <<>> when indexing the buffer raises IndexError.
decode_2bpp_tile(data) ==
    IF Len(data) < 16 THEN <<>>
    ELSE [row \in 1..8 |->
            LET byte1 == data[(row - 1) * 2 + 1]
                byte2 == data[(row - 1) * 2 + 2]
            IN [bit \in 1..8 |->
                  LET bit_pos == 7 - (bit - 1)
                      bit1 == AndOne(ShiftRight(byte1, bit_pos))
                      bit2 == AndOne(ShiftRight(byte2, bit_pos))
                  IN ShiftLeftOr(bit2, bit1)]]

\* Bit patterns one byte of a row is drawn from while the other byte takes
\* every value.
ByteSamples == {0, 1, 60, 90, 128, 165, 195, MaxByte}

\* Tile buffers of the model: 16 bytes, all of them a filler byte but one row,
\* one byte of which takes every value and the other a sample pattern; and
\* buffers cut short.
TileBuffer(r, b1, b2, fill) ==
    [i \in 1..16 |-> IF i = 2 * r + 1 THEN b1 ELSE IF i = 2 * r + 2 THEN b2 ELSE fill]

DecodeInit ==
    /\ ViewerIdle
    /\ SolverIdle
    /\ ExtractIdle
    /\ ExportIdle
    /\ ObjectIdle
    /\ pixels = <<>>
    /\ decode_pc = "ready"
    /\ \E r \in 0..7, b1 \in Bytes, b2 \in Bytes, cut \in {0, 1, 16} :
          /\ b1 \in ByteSamples \/ b2 \in ByteSamples
          /\ cut # 16 => (b1 \in {0, 1} /\ b2 = MaxByte)
          /\ tile_data = SubSeq(TileBuffer(r, b1, b2, 0), 1, cut)

\* A call of decode_2bpp_tile that returns.
DecodeTile ==
    /\ decode_pc = "ready"
    /\ LET result == decode_2bpp_tile(tile_data)
       IN /\ result # <<>>
          /\ pixels' = result
    /\ decode_pc' = "decoded"
    /\ UNCHANGED <<tile_data, solver_vars, extract_vars, export_vars, object_vars, viewer_vars>>

\* A call of decode_2bpp_tile that raises IndexError.
DecodeRaises ==
    /\ decode_pc = "ready"
    /\ decode_2bpp_tile(tile_data) = <<>>
    /\ decode_pc' = "raised"
    /\ UNCHANGED <<tile_data, pixels, solver_vars, extract_vars, export_vars, object_vars, viewer_vars>>

DecodeNext == DecodeTile \/ DecodeRaises

DecodeSpec == DecodeInit /\ [][DecodeNext]_vars

(***************************************************************************)
(* create_zones_and_tiles.py: extract_tile_images                          *)
(***************************************************************************)
\* The palette of line 149; its colours are greys (R = G = B), kept as one
\* channel.
palette == <<255, 192, 96, 0>>

\* config.py: TILESET_ALIASES = {5: 7, 2: 6}, DOJO -> GYM and MART -> POKECENTER.
TILESET_ALIASES == [a \in {5, 2} |-> IF a = 5 THEN 7 ELSE 6]

\* "query_tileset_id = 7 if tileset_id == 5 else tileset_id", then 2 -> 6.
QueryTilesetId(tileset_id) ==
    IF tileset_id = 2 THEN 6 ELSE IF tileset_id = 5 THEN 7 ELSE tileset_id

\* The mutant of positions: the top-right and the bottom-left position have
\* changed places.
positions_exchanged ==
    << << <<0, 0>>, <<0, 1>>, <<1, 0>>, <<1, 1>> >>,
       << <<2, 0>>, <<2, 1>>, <<3, 0>>, <<3, 1>> >>,
       << <<0, 2>>, <<0, 3>>, <<1, 2>>, <<1, 3>> >>,
       << <<2, 2>>, <<2, 3>>, <<3, 2>>, <<3, 3>> >> >>

\* The four positions of a block, as (y, x) pairs of its 4x4 grid.
positions ==
    << << <<0, 0>>, <<0, 1>>, <<1, 0>>, <<1, 1>> >>,
       << <<0, 2>>, <<0, 3>>, <<1, 2>>, <<1, 3>> >>,
       << <<2, 0>>, <<2, 1>>, <<3, 0>>, <<3, 1>> >>,
       << <<2, 2>>, <<2, 3>>, <<3, 2>>, <<3, 3>> >> >>

\* Image.new("RGB", (16, 16), color=(255, 255, 255)); img[y + 1][x + 1].
BlankImage == [y \in 1..16 |-> [x \in 1..16 |-> 255]]

\* tiles.get(tile_index) on the dict built from the tileset_tiles rows: <<>>
\* stands for None as well as for an empty buffer, both falsy.
TileGet(tile_rows, tile_index) ==
    IF tile_index + 1 \in DOMAIN tile_rows THEN tile_rows[tile_index + 1] ELSE <<>>

\* "Draw the tile", lines 260-264: img with the 8x8 tile_pixels put at
\* (offset_x, offset_y) through the palette.
DrawTile(img, tile_pixels, offset_x, offset_y) ==
    [py \in 1..16 |-> [px \in 1..16 |->
        IF /\ px - 1 \in offset_x..(offset_x + 7)
           /\ py - 1 \in offset_y..(offset_y + 7)
        THEN palette[tile_pixels[py - offset_y][px - offset_x] + 1]
        ELSE img[py][px]]]

\* The tile loop of lines 237-264 from tile i on: the image, or <<>> when
\* decode_2bpp_tile raises.
RECURSIVE DrawTiles(_, _, _, _, _)
DecodeAndDraw(img, position, i, block_data, tile_rows, tile_pixels) ==
    IF tile_pixels = <<>> THEN <<>>
    ELSE DrawTiles(DrawTile(img, tile_pixels, (i % 2) * 8, (i \div 2) * 8),
                   position, i + 1, block_data, tile_rows)

DrawTiles(img, position, i, block_data, tile_rows) ==
    IF i > 3 THEN img
    ELSE
      LET tile_pos == position[i + 1][1] * 4 + position[i + 1][2]
      IN IF ~(tile_pos < Len(block_data))
         THEN DrawTiles(img, position, i + 1, block_data, tile_rows)
         ELSE IF TileGet(tile_rows, block_data[tile_pos + 1]) = <<>>
              THEN DrawTiles(img, position, i + 1, block_data, tile_rows)
              ELSE DecodeAndDraw(img, position, i, block_data, tile_rows,
                     decode_2bpp_tile(TileGet(tile_rows, block_data[tile_pos + 1])))

\* The 16x16 image of position pos_index of a block.
QuadrantImage(block_data, tile_rows, pos_index) ==
    DrawTiles(BlankImage, positions[pos_index + 1], 0, block_data, tile_rows)

\* The mutant of get_image_hash: only the top-left tile of the image is hashed.
get_image_hash_corner(img) ==
    [md5 |-> [y \in 1..8 |-> [x \in 1..8 |-> img[y][x]]]]

\* get_image_hash: the MD5 digest of the PNG encoding of the image.  PNG is
\* lossless and the digest is taken to be collision free, so the digest is
\* modelled by the pixel content it was computed from.
get_image_hash(img) == [md5 |-> img]

\* The mutant of AliasKeys: a canonical tile set writes no key for its alias.
AliasKeys_none(tileset_id, block_index, pos_index) == {}

\* The mutant of AliasKeys: the alias key is that of the next quadrant.
AliasKeys_nextquadrant(tileset_id, block_index, pos_index) ==
    (IF tileset_id = 7 THEN {<<5, block_index, (pos_index + 1) % 4>>} ELSE {})
    \cup (IF tileset_id = 6 THEN {<<2, block_index, (pos_index + 1) % 4>>} ELSE {})

\* "if tileset_id == 7: ... (5, block_index, pos_index)" and
\* "if tileset_id == 6: ... (2, block_index, pos_index)".
AliasKeys(tileset_id, block_index, pos_index) ==
    (IF tileset_id = 7 THEN {<<5, block_index, pos_index>>} ELSE {})
    \cup (IF tileset_id = 6 THEN {<<2, block_index, pos_index>>} ELSE {})

\* Sample tile buffers: a blank tile, two patterns, a black tile.
TileSamples ==
    << [i \in 1..16 |-> 0],
       [i \in 1..16 |-> IF i % 2 = 1 THEN 165 ELSE 60],
       [i \in 1..16 |-> IF i <= 8 THEN 255 ELSE 0],
       [i \in 1..16 |-> 255] >>

\* The tileset_tiles rows a tile set can have: none, or 16-byte buffers (as
\* parse_2bpp_file cuts them), or rows with an empty and a cut buffer.
TileRowChoices ==
    { <<>>,
      <<TileSamples[2], TileSamples[1]>>,
      <<TileSamples[2], TileSamples[3], TileSamples[4]>>,
      <<TileSamples[4], <<>>, TileSamples[2], <<255, 0>>>> }

\* Sample blocks: 16 tile indices each (as parse_blockset_file cuts them),
\* and a block cut short.
BlockSamples ==
    << [i \in 1..16 |-> 0],
       [i \in 1..16 |-> IF i \in {1, 2, 5, 6} THEN 0 ELSE 1],
       [i \in 1..16 |-> (i - 1) % 3],
       [i \in 1..16 |-> IF i <= 8 THEN 1 ELSE 3],
       [i \in 1..6 |-> 1] >>

\* The blocksets rows a tile set can have, by block_index from 0.
BlockRowChoices ==
    { <<>>,
      <<BlockSamples[2], BlockSamples[3]>>,
      [b \in 1..MaxBlocks |-> BlockSamples[((b * 2) % 5) + 1]] }

\* Tile set ids of the model: the canonical sets 6 and 7 and their aliases.
TilesetIds == {2, 5, 6, 7}
CanonicalIds == {6, 7}

\* The tilesets rows: any of the ids, returned by ascending id (the rowid
\* order of an INTEGER PRIMARY KEY table).
TilesetTables == {Ascending(S) : S \in SUBSET TilesetIds}

ExtractInit ==
    /\ ViewerIdle
    /\ SolverIdle
    /\ DecodeIdle
    /\ ExportIdle
    /\ ObjectIdle
    /\ tilesets \in TilesetTables
    /\ blocksets \in [CanonicalIds -> BlockRowChoices]
    /\ tileset_tiles \in [CanonicalIds -> TileRowChoices]
    /\ image_hash_to_id = <<>>
    /\ block_pos_to_image_id = <<>>
    /\ tile_images = <<>>
    /\ image_files = <<>>
    /\ counters = [unique_image_count |-> 0, duplicate_count |-> 0,
                   tile_image_count |-> 0]
    /\ loop_pos = <<>>
    /\ extract_pc = "idle"
    /\ interned = <<>>

\* Rows of a table for a tile set id; no rows when the id has none.
RowsOf(table, tileset_id) ==
    IF tileset_id \in DOMAIN table THEN table[tileset_id] ELSE <<>>

\* The loop position after the iteration at <<ti, bi, pi>>.
NextPos(ti, bi, pi) ==
    IF pi < 3 THEN <<ti, bi, pi + 1>>
    ELSE IF bi + 1 < Len(RowsOf(blocksets, QueryTilesetId(tilesets[ti])))
         THEN <<ti, bi + 1, 0>>
         ELSE <<ti + 1, 0, 0>>

\* extract_tile_images is called: lines 133-167.
StartExtract ==
    /\ extract_pc = "idle"
    /\ extract_pc' = "running"
    /\ loop_pos' = <<1, 0, 0>>
    /\ UNCHANGED <<tilesets, blocksets, tileset_tiles, image_hash_to_id,
                   block_pos_to_image_id, tile_images, image_files, counters,
                   interned>>
    /\ UNCHANGED <<solver_vars, decode_vars, export_vars, object_vars, viewer_vars>>

\* A tile set without blockset rows or without tile rows: "continue".
SkipTileset ==
    /\ extract_pc = "running"
    /\ loop_pos[1] <= Len(tilesets)
    /\ LET query_tileset_id == QueryTilesetId(tilesets[loop_pos[1]])
       IN \/ RowsOf(blocksets, query_tileset_id) = <<>>
          \/ RowsOf(tileset_tiles, query_tileset_id) = <<>>
    /\ loop_pos' = <<loop_pos[1] + 1, 0, 0>>
    /\ UNCHANGED <<tilesets, blocksets, tileset_tiles, image_hash_to_id,
                   block_pos_to_image_id, tile_images, image_files, counters,
                   extract_pc, interned>>
    /\ UNCHANGED <<solver_vars, decode_vars, export_vars, object_vars, viewer_vars>>

\* The image of the iteration at the loop position.
CurrentImage ==
    LET query_tileset_id == QueryTilesetId(tilesets[loop_pos[1]])
    IN QuadrantImage(RowsOf(blocksets, query_tileset_id)[loop_pos[2] + 1],
                     RowsOf(tileset_tiles, query_tileset_id), loop_pos[3])

\* The loop position names an iteration of the pos_index loop.
AtQuadrant ==
    /\ extract_pc = "running"
    /\ loop_pos[1] <= Len(tilesets)
    /\ LET query_tileset_id == QueryTilesetId(tilesets[loop_pos[1]])
       IN /\ RowsOf(blocksets, query_tileset_id) # <<>>
          /\ RowsOf(tileset_tiles, query_tileset_id) # <<>>

\* The mutant of WrittenKeys: the last quadrant of a block writes no key.
WrittenKeys_three(tileset_id, block_index, pos_index) ==
    IF pos_index = 3 THEN {}
    ELSE {<<tileset_id, block_index, pos_index>>}
             \cup AliasKeys(tileset_id, block_index, pos_index)

\* The index keys an intern writes: its own and those of the aliases.
WrittenKeys(tileset_id, block_index, pos_index) ==
    {<<tileset_id, block_index, pos_index>>}
        \cup AliasKeys(tileset_id, block_index, pos_index)

LogEntry(tileset_id, block_index, pos_index, img, image_id) ==
    [tileset_id |-> tileset_id, block_index |-> block_index,
     pos_index |-> pos_index, img |-> img, image_id |-> image_id]

\* Lines 270-286 for the image img with hash img_hash.
UseExisting(tileset_id, block_index, pos_index, img, img_hash) ==
    /\ img # <<>>
    /\ img_hash \in DOMAIN image_hash_to_id
    /\ block_pos_to_image_id' =
          Bind(block_pos_to_image_id,
               WrittenKeys(tileset_id, block_index, pos_index),
               image_hash_to_id[img_hash])
    /\ interned' = Append(interned,
          LogEntry(tileset_id, block_index, pos_index, img,
                   image_hash_to_id[img_hash]))
    /\ counters' = [counters EXCEPT !.duplicate_count = @ + 1,
                                    !.tile_image_count = @ + 1]
    /\ loop_pos' = NextPos(loop_pos[1], block_index, pos_index)

\* An iteration whose image hash was seen before: lines 270-286.
InternDuplicate ==
    /\ AtQuadrant
    /\ UseExisting(tilesets[loop_pos[1]], loop_pos[2], loop_pos[3],
                   CurrentImage, get_image_hash(CurrentImage))
    /\ UNCHANGED <<tilesets, blocksets, tileset_tiles, image_hash_to_id,
                   tile_images, image_files, extract_pc>>
    /\ UNCHANGED <<solver_vars, decode_vars, export_vars, object_vars, viewer_vars>>

\* The mutant of image_path: every image is saved under one file name.
image_path_fixed(unique_image_count) == <<"tile_images/tile_", 0, ".png">>

\* image_path = f"{TILE_IMAGES_DIR}/tile_{unique_image_count}.png", line 289.
image_path(unique_image_count) ==
    <<"tile_images/tile_", unique_image_count, ".png">>

\* Lines 287-313 for the image img with hash img_hash; path is the file the
\* image is saved to, image_id the lastrowid of the INSERT.
SaveNew(tileset_id, block_index, pos_index, img, img_hash, path, image_id) ==
    /\ img # <<>>
    /\ img_hash \notin DOMAIN image_hash_to_id
    /\ image_files' = Bind(image_files, {path}, img)
    /\ tile_images' = Append(tile_images,
          [id |-> image_id, tileset_id |-> tileset_id,
           block_index |-> block_index, position |-> pos_index,
           image_path |-> path, image_hash |-> img_hash])
    /\ image_hash_to_id' = Bind(image_hash_to_id, {img_hash}, image_id)
    /\ block_pos_to_image_id' =
          Bind(block_pos_to_image_id,
               WrittenKeys(tileset_id, block_index, pos_index), image_id)
    /\ interned' = Append(interned,
          LogEntry(tileset_id, block_index, pos_index, img, image_id))
    /\ counters' = [counters EXCEPT !.unique_image_count = @ + 1,
                                    !.tile_image_count = @ + 1]
    /\ loop_pos' = NextPos(loop_pos[1], block_index, pos_index)

\* An iteration whose image hash is new: lines 287-313.
InternNew ==
    /\ AtQuadrant
    /\ SaveNew(tilesets[loop_pos[1]], loop_pos[2], loop_pos[3],
               CurrentImage, get_image_hash(CurrentImage),
               image_path(counters.unique_image_count), Len(tile_images) + 1)
    /\ UNCHANGED <<tilesets, blocksets, tileset_tiles, extract_pc>>
    /\ UNCHANGED <<solver_vars, decode_vars, export_vars, object_vars, viewer_vars>>

\* An iteration in which decode_2bpp_tile raises IndexError; nothing catches it.
InternRaises ==
    /\ AtQuadrant
    /\ CurrentImage = <<>>
    /\ extract_pc' = "raised"
    /\ UNCHANGED <<tilesets, blocksets, tileset_tiles, image_hash_to_id,
                   block_pos_to_image_id, tile_images, image_files, counters,
                   loop_pos, interned>>
    /\ UNCHANGED <<solver_vars, decode_vars, export_vars, object_vars, viewer_vars>>

\* The tileset loop ends: lines 321-328.
FinishExtract ==
    /\ extract_pc = "running"
    /\ loop_pos[1] > Len(tilesets)
    /\ extract_pc' = "done"
    /\ UNCHANGED <<tilesets, blocksets, tileset_tiles, image_hash_to_id,
                   block_pos_to_image_id, tile_images, image_files, counters,
                   loop_pos, interned>>
    /\ UNCHANGED <<solver_vars, decode_vars, export_vars, object_vars, viewer_vars>>

ExtractNext ==
    \/ StartExtract
    \/ SkipTileset
    \/ InternDuplicate
    \/ InternNew
    \/ InternRaises
    \/ FinishExtract

ExtractSpec == ExtractInit /\ [][ExtractNext]_vars

\* The sequences that list the elements of S once each.
RECURSIVE Orders(_)
Orders(S) ==
    IF S = {} THEN {<<>>}
    ELSE UNION {{<<x>> \o t : t \in Orders(S \ {x})} : x \in S}

\* The tilesets rows in any order: "SELECT id, name FROM tilesets" has no
\* ORDER BY, so the order of the rows is the database engine's.
AnyOrderTables == UNION {Orders(S) : S \in SUBSET TilesetIds}

\* The blocksets rows of at most two blocks: none, two whole blocks, or one
\* block that names a tile whose buffer is cut short.
ShortBlockRowChoices ==
    { <<>>, <<BlockSamples[2], BlockSamples[3]>>, <<BlockSamples[4]>> }

\* The tileset_tiles rows of three buffers or more.
LongTileRowChoices == {rows \in TileRowChoices : Len(rows) >= 3}

\* extract_tile_images over tile sets in any order.
ExtractOrderInit ==
    /\ ViewerIdle
    /\ SolverIdle
    /\ DecodeIdle
    /\ ExportIdle
    /\ ObjectIdle
    /\ tilesets \in AnyOrderTables
    /\ blocksets \in [CanonicalIds -> ShortBlockRowChoices]
    /\ tileset_tiles \in [CanonicalIds -> LongTileRowChoices]
    /\ image_hash_to_id = <<>>
    /\ block_pos_to_image_id = <<>>
    /\ tile_images = <<>>
    /\ image_files = <<>>
    /\ counters = [unique_image_count |-> 0, duplicate_count |-> 0,
                   tile_image_count |-> 0]
    /\ loop_pos = <<>>
    /\ extract_pc = "idle"
    /\ interned = <<>>

ExtractOrderSpec == ExtractOrderInit /\ [][ExtractNext]_vars

(***************************************************************************)
(* export_map.py: maps and tiles_raw; create_zones_and_tiles.py:           *)
(* populate_tiles                                                          *)
(***************************************************************************)
\* The map shapes of the model, in blocks.
MapShapes == {<<1, 1>>, <<2, 2>>, <<1, 3>>, <<2, 3>>}

\* The .blk files a width x height map can have: none, one byte per block,
\* one byte short, one byte long.
BlkFiles(width, height) ==
    {<<>>}
    \cup [1..(width * height) -> 0..MaxBlockIndex]
    \cup {[i \in 1..(width * height - 1) |-> MaxBlockIndex],
          [i \in 1..(width * height + 1) |-> i % (MaxBlockIndex + 1)]}

\* The tile set of a map header: None, the overworld, or an indoor tile set.
HeaderTilesets == {<<>>, <<0>>, <<2>>, <<5>>, <<6>>}

\* The index keys extract_tile_images writes for the tile sets looked up.
IndexKeys == {0, 6, 7} \X (0..MaxBlockIndex) \X (0..3)

\* The dictionaries populate_tiles is called with: an image of its own for
\* every quadrant, one image shared by the quadrants of a block, a blockset
\* that ends before the last block index, and a dictionary with quadrants
\* missing inside a block (block 0 has quadrants 0 and 2, the other blocks
\* quadrant 1 only).
IndexTables ==
    { [k \in IndexKeys |-> 1 + k[3] + 4 * (k[2] + (MaxBlockIndex + 1) * k[1])],
      [k \in IndexKeys |-> 1 + k[2]],
      [k \in {q \in IndexKeys : q[2] < MaxBlockIndex} |-> 1 + k[3] + 4 * k[2]],
      [k \in {q \in IndexKeys : IF q[2] = 0 THEN q[3] \in {0, 2} ELSE q[3] = 1}
          |-> 1 + k[3] + 4 * k[2]] }

\* A second map of the maps list, after the one that varies: an overworld map
\* of one block, block 0.
CompanionMap == [id |-> 2, name |-> "ROUTE_2", width |-> 1, height |-> 1]
CompanionHeader == <<0>>
CompanionBlk == <<0>>

TilesInit ==
    /\ ViewerIdle
    /\ SolverIdle
    /\ DecodeIdle
    /\ ObjectIdle
    /\ \E shape \in MapShapes :
          /\ map_constants = [id |-> 1, name |-> "ROUTE_1",
                              width |-> shape[1], height |-> shape[2]]
          /\ map_data \in BlkFiles(shape[1], shape[2])
    /\ map_header \in HeaderTilesets
    /\ block_pos_to_image_id \in IndexTables
    /\ tilesets = <<>>
    /\ blocksets = <<>>
    /\ tileset_tiles = <<>>
    /\ image_hash_to_id = <<>>
    /\ tile_images = <<>>
    /\ image_files = <<>>
    /\ counters = <<>>
    /\ loop_pos = <<>>
    /\ extract_pc = "done"
    /\ interned = <<>>
    /\ maps_table = <<>>
    /\ tiles_raw = <<>>
    /\ map_positions = <<>>
    /\ tiles_table = <<>>
    /\ export_pc = "source"

\* export_map.py lines 813-842: the grid of height rows of width bytes, padded
\* with zeros, with its rows reversed, flattened.
invert_rows(blk_data, width, height) ==
    [i \in 1..(width * height) |->
        LET y == (height - 1) - ((i - 1) \div width)
            x == (i - 1) % width
            idx == y * width + x
        IN IF idx < Len(blk_data) THEN blk_data[idx + 1] ELSE 0]

\* The maps row of lines 845-860.
maps_row(map_info, tileset_id, blk_data) ==
    [id |-> map_info.id, name |-> map_info.name,
     width |-> map_info.width, height |-> map_info.height,
     tileset_id |-> tileset_id,
     blk_data |-> IF tileset_id = <<0>> /\ blk_data # <<>>
                  THEN invert_rows(blk_data, map_info.width, map_info.height)
                  ELSE blk_data,
     is_overworld |-> IF tileset_id = <<0>> THEN 1 ELSE 0]

\* The mutant of raw_rows: the rows of an overworld map are read reversed.
raw_rows_inverted(map_info, tileset_id, blk_data) ==
    IF tileset_id = <<>> \/ blk_data = <<>> THEN <<>>
    ELSE [n \in 1..(map_info.width * map_info.height) |->
            [map_id |-> map_info.id,
             x |-> (n - 1) % map_info.width,
             y |-> (n - 1) \div map_info.width,
             block_index |->
                IF tileset_id = <<0>>
                THEN invert_rows(blk_data, map_info.width, map_info.height)[n]
                ELSE IF n <= Len(blk_data) THEN blk_data[n] ELSE 0,
             tileset_id |-> tileset_id[1],
             is_overworld |-> IF tileset_id = <<0>> THEN 1 ELSE 0]]

\* The mutant of raw_rows: one row per byte of the .blk file, neither padded
\* nor truncated.
raw_rows_unsized(map_info, tileset_id, blk_data) ==
    IF tileset_id = <<>> \/ blk_data = <<>> THEN <<>>
    ELSE [n \in 1..Len(blk_data) |->
            [map_id |-> map_info.id,
             x |-> (n - 1) % map_info.width,
             y |-> (n - 1) \div map_info.width,
             block_index |-> blk_data[n],
             tileset_id |-> tileset_id[1],
             is_overworld |-> IF tileset_id = <<0>> THEN 1 ELSE 0]]

\* The tiles_raw rows of lines 880-962 for one map: none without a tile set
\* or without .blk bytes; else the bytes of map_data, padded with zeros or
\* truncated to width * height, one row per block in y-major order.
raw_rows(map_info, tileset_id, blk_data) ==
    IF tileset_id = <<>> \/ blk_data = <<>> THEN <<>>
    ELSE [n \in 1..(map_info.width * map_info.height) |->
            [map_id |-> map_info.id,
             x |-> (n - 1) % map_info.width,
             y |-> (n - 1) \div map_info.width,
             block_index |-> IF n <= Len(blk_data) THEN blk_data[n] ELSE 0,
             tileset_id |-> tileset_id[1],
             is_overworld |-> IF tileset_id = <<0>> THEN 1 ELSE 0]]

\* export_map.py main: the maps rows, the tiles_raw rows, and the
\* overworld_map_positions table dropped and created again (lines 992-1003).
export_map_main ==
    /\ export_pc = "source"
    /\ maps_table' = <<maps_row(map_constants, map_header, map_data),
                       maps_row(CompanionMap, CompanionHeader, CompanionBlk)>>
    /\ tiles_raw' = raw_rows(map_constants, map_header, map_data)
                       \o raw_rows(CompanionMap, CompanionHeader, CompanionBlk)
    /\ map_positions' = <<>>
    /\ export_pc' = "exported"
    /\ UNCHANGED <<map_constants, map_header, map_data, tiles_table>>
    /\ UNCHANGED <<solver_vars, decode_vars, extract_vars, object_vars, viewer_vars>>

\* block_pos_to_image_id.get(key): <<id>>, or <<>> for None.
IndexGet(index, key) ==
    IF key \in DOMAIN index THEN <<index[key]>> ELSE <<>>

\* "if not tile_image_id": None or 0.
Falsy(got) == got = <<>> \/ got[1] = 0

\* The mutant of lookup_tileset_id: the declared tile set is looked up.
lookup_tileset_id_declared(raw_tileset_id) == raw_tileset_id

\* Lines 424-428: DOJO (5) is looked up as GYM (7), MART (2) as POKECENTER (6).
lookup_tileset_id(raw_tileset_id) ==
    IF raw_tileset_id = 2 THEN 6
    ELSE IF raw_tileset_id = 5 THEN 7 ELSE raw_tileset_id

\* The mutant of map_tile: the second lookup, with position 0, is left out.
map_tile_nofallback(map_row, positions_table, raw, position, index) ==
    LET in_positions == map_row.name \in DOMAIN positions_table
        x_offset == IF map_row.is_overworld = 1 /\ in_positions
                    THEN positions_table[map_row.name][1] ELSE 0
        y_offset == IF map_row.is_overworld = 1 /\ in_positions
                    THEN positions_table[map_row.name][2] ELSE 0
        tile_x == raw.x * 2 + (position % 2) + x_offset
        tile_y == raw.y * 2 + (position \div 2)
                    + (IF in_positions THEN y_offset ELSE 0)
        tile_image_id == IndexGet(index, <<lookup_tileset_id(raw.tileset_id),
                                           raw.block_index, position>>)
    IN IF Falsy(tile_image_id) THEN <<>>
       ELSE <<[x |-> tile_x, y |-> tile_y, local_x |-> tile_x,
               local_y |-> tile_y, map_id |-> map_row.id,
               tile_image_id |-> tile_image_id[1],
               is_overworld |-> map_row.is_overworld]>>

\* The mutant of map_tile: the column takes position // 2 and the row
\* position % 2.
map_tile_transposed(map_row, positions_table, raw, position, index) ==
    LET in_positions == map_row.name \in DOMAIN positions_table
        x_offset == IF map_row.is_overworld = 1 /\ in_positions
                    THEN positions_table[map_row.name][1] ELSE 0
        y_offset == IF map_row.is_overworld = 1 /\ in_positions
                    THEN positions_table[map_row.name][2] ELSE 0
        tile_x == raw.x * 2 + (position \div 2) + x_offset
        tile_y == raw.y * 2 + (position % 2)
                    + (IF in_positions THEN y_offset ELSE 0)
        first == IndexGet(index, <<lookup_tileset_id(raw.tileset_id),
                                   raw.block_index, position>>)
        second == IndexGet(index, <<lookup_tileset_id(raw.tileset_id),
                                    raw.block_index, 0>>)
        tile_image_id == IF Falsy(first) THEN second ELSE first
    IN IF Falsy(tile_image_id) THEN <<>>
       ELSE <<[x |-> tile_x, y |-> tile_y, local_x |-> tile_x,
               local_y |-> tile_y, map_id |-> map_row.id,
               tile_image_id |-> tile_image_id[1],
               is_overworld |-> map_row.is_overworld]>>

\* Lines 432-465 for one raw tile and one position: the tuple appended to
\* map_tiles, or nothing when no image id is found.
map_tile(map_row, positions_table, raw, position, index) ==
    LET in_positions == map_row.name \in DOMAIN positions_table
        x_offset == IF map_row.is_overworld = 1 /\ in_positions
                    THEN positions_table[map_row.name][1] ELSE 0
        y_offset == IF map_row.is_overworld = 1 /\ in_positions
                    THEN positions_table[map_row.name][2] ELSE 0
        tile_x == raw.x * 2 + (position % 2) + x_offset
        tile_y == raw.y * 2 + (position \div 2)
                    + (IF in_positions THEN y_offset ELSE 0)
        first == IndexGet(index, <<lookup_tileset_id(raw.tileset_id),
                                   raw.block_index, position>>)
        second == IndexGet(index, <<lookup_tileset_id(raw.tileset_id),
                                    raw.block_index, 0>>)
        tile_image_id == IF Falsy(first) THEN second ELSE first
    IN IF Falsy(tile_image_id) THEN <<>>
       ELSE <<[x |-> tile_x, y |-> tile_y, local_x |-> tile_x,
               local_y |-> tile_y, map_id |-> map_row.id,
               tile_image_id |-> tile_image_id[1],
               is_overworld |-> map_row.is_overworld]>>

\* The loop over raw_tiles and range(4) from raw tile i, position on.
RECURSIVE collect_map_tiles(_, _, _, _, _, _)
collect_map_tiles(map_row, positions_table, raw_tiles, i, position, index) ==
    IF i > Len(raw_tiles) THEN <<>>
    ELSE map_tile(map_row, positions_table, raw_tiles[i], position, index)
         \o (IF position < 3
             THEN collect_map_tiles(map_row, positions_table, raw_tiles, i,
                                    position + 1, index)
             ELSE collect_map_tiles(map_row, positions_table, raw_tiles,
                                    i + 1, 0, index))

\* The sort key (-t[1], t[0]) of line 470 puts a before b.
SortsBefore(a, b) == a.y > b.y \/ (a.y = b.y /\ a.x < b.x)

\* map_tiles.sort(key=lambda t: (-t[1], t[0])): a stable sort.
RECURSIVE sort_map_tiles(_)
sort_map_tiles(map_tiles) ==
    IF map_tiles = <<>> THEN <<>>
    ELSE LET sorted == sort_map_tiles(SubSeq(map_tiles, 1, Len(map_tiles) - 1))
             t == map_tiles[Len(map_tiles)]
             k == Cardinality({j \in 1..Len(sorted) : ~SortsBefore(t, sorted[j])})
         IN SubSeq(sorted, 1, k) \o <<t>> \o SubSeq(sorted, k + 1, Len(sorted))

\* SELECT ... FROM tiles_raw WHERE map_id = ?
raw_tiles_of(table, map_id) == SelectSeq(table, LAMBDA r : r.map_id = map_id)

\* The loop over the maps rows from row i on: the tiles inserted.
RECURSIVE tiles_data(_, _, _, _, _)
tiles_data(map_rows, i, positions_table, raw_table, index) ==
    IF i > Len(map_rows) THEN <<>>
    ELSE sort_map_tiles(
             collect_map_tiles(map_rows[i], positions_table,
                               raw_tiles_of(raw_table, map_rows[i].id),
                               1, 0, index))
         \o tiles_data(map_rows, i + 1, positions_table, raw_table, index)

\* populate_tiles(conn, block_pos_to_image_id): DELETE FROM tiles, then the
\* tiles of every maps row.
populate_tiles ==
    /\ export_pc = "exported"
    /\ tiles_table' = tiles_data(maps_table, 1, map_positions, tiles_raw,
                                 block_pos_to_image_id)
    /\ export_pc' = "populated"
    /\ UNCHANGED <<map_constants, map_header, map_data, maps_table, tiles_raw,
                   map_positions>>
    /\ UNCHANGED <<solver_vars, decode_vars, extract_vars, object_vars, viewer_vars>>

TilesNext ==
    \/ export_map_main
    \/ populate_tiles

TilesSpec == TilesInit /\ [][TilesNext]_vars

(***************************************************************************)
(* update_object_coordinates.py                                            *)
(***************************************************************************)
\* A NULL column is <<>>, a number n is <<n>>.
NULL == <<>>

\* The maps that have objects: export_objects.py stores none for map id 0.
ObjectMapIds == 1..MaxMapId

\* The offsets the coordinate solver gave the maps.
PlacedOffsets == {<<0, 0>>, <<4, 0 - 6>>}

\* The tiles of a map as the coordinate solver leaves them with the offset
\* (ox, oy): reset by its least coordinates, moved by the offset.
PlacedTiles(fresh, ox, oy) ==
    update_map_coordinates(reset_to_origin([m \in {1} |-> fresh], 1),
                           1, ox, oy)[1]

\* The tiles a map can have when update_object_coordinates is called: none;
\* those of a one-block map placed by the solver; those of a map of two
\* blocks whose first block has no tile instance, placed by the solver.
ObjectMapTiles ==
    {{}}
    \cup {PlacedTiles(FreshTiles(1, 1), o[1], o[2]) : o \in PlacedOffsets}
    \cup {PlacedTiles({r \in FreshTiles(2, 1) : r.local_x >= BLOCK_SIZE},
                      o[1], o[2]) : o \in PlacedOffsets}

\* The objects rows: local coordinates from the object files; x and y NULL
\* as export_objects.py inserts them, or left by an earlier update.
ObjectRows ==
    [map_id : ObjectMapIds,
     local_x : {0, 3}, local_y : {0, 2},
     x : {NULL, <<9>>}, y : {NULL, <<9>>}]

ObjectInit ==
    /\ ViewerIdle
    /\ DecodeIdle
    /\ ExtractIdle
    /\ ExportIdle
    /\ maps = ObjectMapIds
    /\ map_dims = <<>>
    /\ tiles \in [ObjectMapIds -> ObjectMapTiles]
    /\ map_connections = <<>>
    /\ map_queue = <<>>
    /\ processed_maps = {}
    /\ pc = "idle"
    /\ runs = 0
    /\ printed = <<>>
    /\ discovered = <<>>
    /\ prev_tiles = <<>>
    /\ is_overworld \in [ObjectMapIds -> {0, 1}]
    /\ \E n \in 1..MaxObjects :
          /\ objects \in [1..n -> ObjectRows]
          /\ \A i \in 1..n : (objects[i].x = NULL) <=> (objects[i].y = NULL)
    /\ object_pc = "ready"

\* get_map_positions: SELECT m.id, t.x, t.y FROM maps m JOIN tiles t ON
\* m.id = t.map_id WHERE m.is_overworld = 1 AND t.local_x = 0 AND
\* t.local_y = 0 GROUP BY m.id, as a dictionary.
get_map_positions ==
    [m \in {k \in maps : /\ is_overworld[k] = 1
                         /\ \E r \in tiles[k] : r.local_x = 0 /\ r.local_y = 0} |->
        LET t == CHOOSE r \in tiles[m] : r.local_x = 0 /\ r.local_y = 0
        IN <<t.x, t.y>>]

\* The objects table after the UPDATEs of lines 79-102.
updated_objects(map_offsets) ==
    [i \in DOMAIN objects |->
        LET o == objects[i]
        IN IF o.map_id \in DOMAIN map_offsets
           THEN [o EXCEPT !.x = <<o.local_x + map_offsets[o.map_id][1]>>,
                          !.y = <<o.local_y + map_offsets[o.map_id][2]>>]
           ELSE IF o.map_id \in maps /\ is_overworld[o.map_id] = 0
                THEN [o EXCEPT !.x = <<o.local_x>>, !.y = <<o.local_y>>]
                ELSE o]

\* update_object_coordinates(conn, dry_run): a dry run only counts.
update_object_coordinates ==
    /\ object_pc = "ready"
    /\ \E dry_run \in BOOLEAN :
          IF dry_run
          THEN /\ object_pc' = "dry_run"
               /\ objects' = objects
          ELSE /\ object_pc' = "updated"
               /\ objects' = updated_objects(get_map_positions)
    /\ UNCHANGED is_overworld
    /\ UNCHANGED <<solver_vars, decode_vars, extract_vars, export_vars, viewer_vars>>

ObjectNext == update_object_coordinates

ObjectSpec == ObjectInit /\ [][ObjectNext]_vars

(***************************************************************************)
(* Properties of the coordinate solver                                     *)
(***************************************************************************)
\* Bounding box of the global coordinates of a map's tiles.
MinX(m) == SetMin({r.x : r \in tiles[m]})
MaxX(m) == SetMax({r.x : r \in tiles[m]})
MinY(m) == SetMin({r.y : r \in tiles[m]})
MaxY(m) == SetMax({r.y : r \in tiles[m]})

BoxesIntersect(a, b) ==
    /\ MinX(a) <= MaxX(b) /\ MinX(b) <= MaxX(a)
    /\ MinY(a) <= MaxY(b) /\ MinY(b) <= MaxY(a)

\* Width and height of a map in tiles: the extent of its tile instances.
TileWidth(m) == MaxX(m) - MinX(m) + 1
TileHeight(m) == MaxY(m) - MinY(m) + 1

\* The queue append that decided where map n was placed: the first one for n.
FirstDiscovery(n) ==
    discovered[SetMin({i \in 1..Len(discovered) : discovered[i].to_map_id = n})]

\* Every connection names two maps of the maps table and one of the four
\* directions.
WellFormedConnections ==
    \A i \in 1..Len(map_connections) :
        /\ map_connections[i].from_map_id \in maps
        /\ map_connections[i].to_map_id \in maps
        /\ map_connections[i].direction \in Directions

\* C1 as stated: after the solver finishes on a well-formed connection graph,
\* the global bounding boxes of every two distinct placed maps do not
\* intersect.
C1_AllPairsDisjoint ==
    (pc = "done" /\ WellFormedConnections) =>
        \A a \in processed_maps : \A b \in processed_maps \ {a} :
            ~BoxesIntersect(a, b)

\* C1 amended: after the solver finishes, every placed map other than the root
\* has a bounding box disjoint from that of the map it was placed from,
\* whenever the connection used has one of the four directions.
C1_PlacedFromDisjoint ==
    pc = "done" =>
        \A n \in processed_maps \ {PALLET_TOWN_MAP_ID} :
            LET e == FirstDiscovery(n)
            IN e.direction \in Directions => ~BoxesIntersect(e.from_map_id, n)

C1_Witness ==
    /\ pc = "done"
    /\ processed_maps = MapIds
    /\ FirstDiscovery(1).from_map_id = 0
    /\ FirstDiscovery(2).from_map_id = 1
    /\ FirstDiscovery(2).direction = "east"
    /\ FirstDiscovery(1).direction = "south"

\* The scenario of C2: Town (map 0, 2x2 blocks) connects north to Route
\* (map 1, 2x3 blocks) with lateral offset 0, and nothing else is connected.
TownRouteScenario ==
    /\ map_connections =
          <<[from_map_id |-> 0, to_map_id |-> 1, direction |-> "north", offset |-> 0]>>
    /\ map_dims[0] = <<2, 2>>
    /\ map_dims[1] = <<2, 3>>
    /\ pc = "done"

C4_IdempotentRecompute ==
    (pc \in {"done", "crashed"} /\ runs >= 2) => tiles = prev_tiles

C4_Witness ==
    /\ pc = "done"
    /\ runs = 2
    /\ processed_maps = MapIds
    /\ \E r \in tiles[1] : r.x # r.local_x \/ r.y # r.local_y
    /\ \E r \in tiles[2] : r.x # r.local_x \/ r.y # r.local_y

Opposite(direction) ==
    CASE direction = "north" -> "south"
      [] direction = "south" -> "north"
      [] direction = "east" -> "west"
      [] direction = "west" -> "east"

\* The rows of map_connections stored from map a to map b.
StoredRows(a, b) ==
    {j \in 1..Len(map_connections) :
        /\ map_connections[j].from_map_id = a
        /\ map_connections[j].to_map_id = b}

\* C11: when the solver processing map B discovers map A and the table has
\* a connection stored only as A->B (no row B->A), with one of the four
\* directions, then the offset of A is computed with the opposite direction
\* of a stored row A->B and with its lateral offset.
C11_ReverseEdgeFlipped ==
    \A i \in 1..Len(discovered) :
        LET e == discovered[i]
            A == e.to_map_id
            B == e.from_map_id
        IN (/\ StoredRows(B, A) = {}
            /\ \A j \in StoredRows(A, B) :
                  map_connections[j].direction \in Directions)
           => \E j \in StoredRows(A, B) :
                 /\ e.direction = Opposite(map_connections[j].direction)
                 /\ e.offset = map_connections[j].offset

\* The maps of the maps table that a chain of map_connections rows, read in
\* either direction, links to a map of S.
RECURSIVE ReachableFrom(_)
ReachableFrom(S) ==
    LET linked == {m \in maps :
                     \E j \in 1..Len(map_connections), n \in S :
                        \/ /\ map_connections[j].from_map_id = n
                           /\ map_connections[j].to_map_id = m
                        \/ /\ map_connections[j].from_map_id = m
                           /\ map_connections[j].to_map_id = n}
    IN IF linked \subseteq S THEN S ELSE ReachableFrom(S \cup linked)

\* The maps reachable from the root.
Reachable == ReachableFrom({PALLET_TOWN_MAP_ID})

\* The offsets of a queue entry or of a log entry.
OffsetOf(e) == <<e.x_offset, e.y_offset>>

\* In every state of a run: no map has its offset applied twice, and every
\* map but the root got the offset of its first discovery; when the run has
\* ended, by the queue running empty or by an exception, the maps that got
\* an offset are the maps reachable from the root.
PlacedOnceWithFirstOffset ==
    /\ \A i, j \in 1..Len(printed) :
          printed[i].map_id = printed[j].map_id => i = j
    /\ {printed[i].map_id : i \in 1..Len(printed)} = processed_maps
    /\ \A i \in 1..Len(printed) :
          IF printed[i].map_id = PALLET_TOWN_MAP_ID
          THEN OffsetOf(printed[i]) = <<0, 0>>
          ELSE OffsetOf(printed[i]) = OffsetOf(FirstDiscovery(printed[i].map_id))
    /\ pc \in {"done", "crashed"} => processed_maps = Reachable

\* A step of a run leaves the tiles of every map placed before it where they
\* are.
PlacedMapsStay ==
    \A m \in processed_maps \cap processed_maps' : tiles'[m] = tiles[m]

\* C12: in any solver run every map reachable from the root has its offset
\* applied exactly once, the offset is that of the map's first discovery in
\* breadth-first order, and later discoveries of the map never change its
\* coordinates.
C12_PlacedOnceFirstWins ==
    /\ []PlacedOnceWithFirstOffset
    /\ [][PlacedMapsStay]_vars

\* C13: after the solver finishes, every tile instance of every placed map
\* has (x, y) = (local_x + ox, local_y + oy), (ox, oy) being the offset the
\* solver computed for the map.
C13_GlobalIsLocalPlusOffset ==
    pc = "done" =>
        \A i \in 1..Len(printed) :
            \A r \in tiles[printed[i].map_id] :
                /\ r.x = r.local_x + printed[i].x_offset
                /\ r.y = r.local_y + printed[i].y_offset

\* C14: the solver never moves a tile of a map that no chain of connections
\* links to the root: such a map keeps x = local_x, y = local_y, and it does
\* not stop the run (a run stops only on a reachable map without tiles).
C14_UnreachableLeftAlone ==
    /\ \A m \in MapIds \ Reachable :
          \A r \in tiles[m] : r.x = r.local_x /\ r.y = r.local_y
    /\ pc = "crashed" => \E m \in Reachable : tiles[m] = {}

\* A finished run that placed map 1 away from the origin while map 2, which
\* has tiles and a connection of its own, is not reachable.
C14_Witness ==
    /\ pc = "done"
    /\ 1 \in processed_maps
    /\ \E r \in tiles[1] : r.x # r.local_x \/ r.y # r.local_y
    /\ 2 \in maps \ Reachable
    /\ tiles[2] # {}
    /\ \E j \in 1..Len(map_connections) : map_connections[j].from_map_id = 2

Abuts(m, n, direction) ==
    CASE direction = "north" -> MaxY(n) = MinY(m) - 1
      [] direction = "south" -> MinY(n) = MaxY(m) + 1
      [] direction = "east" -> MinX(n) = MaxX(m) + 1
      [] direction = "west" -> MaxX(n) = MinX(m) - 1

\* C18: in every state of a run, a map n placed from map m through a
\* connection with one of the four directions lies on that side of m, so that
\* the bounding boxes of the tiles of m and n do not intersect, whatever the
\* lateral offset of the connection.
C18_AdjacentMapsDisjoint ==
    \A n \in processed_maps \ {PALLET_TOWN_MAP_ID} :
        LET e == FirstDiscovery(n)
        IN e.direction \in Directions =>
              /\ Abuts(e.from_map_id, n, e.direction)
              /\ ~BoxesIntersect(e.from_map_id, n)

\* Two maps were placed through connections with lateral offsets 1 and -1,
\* one beside and one above or below its neighbour.
C18_Witness ==
    \E n, k \in processed_maps \ {PALLET_TOWN_MAP_ID} :
        /\ FirstDiscovery(n).direction \in {"east", "west"}
        /\ FirstDiscovery(n).offset = 1
        /\ FirstDiscovery(k).direction \in {"north", "south"}
        /\ FirstDiscovery(k).offset = 0 - 1

AllOrNone(index) ==
    \A k \in DOMAIN index : \A q \in 0..3 : <<k[1], k[2], q>> \in DOMAIN index

\* extract_tile_images is before, between or after the iterations of its
\* block loop, and did not raise.
BetweenBlocks ==
    \/ extract_pc \in {"idle", "done"}
    \/ extract_pc = "running" /\ loop_pos[3] = 0

\* The image ids populate_tiles gives the tile instance of quadrant q of a
\* block b of a map that declares tile set T, with the index as it stands.
InstanceImages(T, b, q) ==
    LET got == map_tile([id |-> 1, name |-> "ROUTE_1", is_overworld |-> 1], <<>>,
                        [x |-> 0, y |-> 0, tileset_id |-> T, block_index |-> b],
                        q, block_pos_to_image_id)
    IN {got[i].tile_image_id : i \in DOMAIN got}

\* C25: between the block iterations of extract_tile_images the index holds,
\* for every tile set id and block index, all four quadrant keys or none; so
\* with the index of a finished run populate_tiles gives every tile instance
\* the image of its own key (lookup tile set, block, quadrant), and gives no
\* tile instance where that key is absent: the quadrant-0 fallback supplies
\* nothing.
C25_AllOrNoneQuadrants ==
    /\ BetweenBlocks => AllOrNone(block_pos_to_image_id)
    /\ extract_pc = "done" =>
          \A T \in TilesetIds \cup {0}, b \in 0..MaxBlocks, q \in 0..3 :
              LET own == <<lookup_tileset_id(T), b, q>>
              IN InstanceImages(T, b, q) =
                    IF own \in DOMAIN block_pos_to_image_id
                    THEN {block_pos_to_image_id[own]} ELSE {}

\* A finished run whose index has the four keys of a block of tile set 7,
\* with different images for quadrants 0 and 1, the alias keys of tile set 5
\* with them, and no key of a later block of that tile set.
C25_Witness ==
    /\ extract_pc = "done"
    /\ \E b \in 0..MaxBlocks :
          /\ \A q \in 0..3 : {<<7, b, q>>, <<5, b, q>>} \subseteq DOMAIN block_pos_to_image_id
          /\ block_pos_to_image_id[<<7, b, 0>>] # block_pos_to_image_id[<<7, b, 1>>]
          /\ InstanceImages(5, b, 1) = {block_pos_to_image_id[<<7, b, 1>>]}
          /\ \A q \in 0..3 : <<7, b + 1, q>> \notin DOMAIN block_pos_to_image_id

\* Entries i < j of the log of interns are of tile sets T and U, for the
\* same block and quadrant.
InternedInOrder(T, U) ==
    \E i, j \in 1..Len(interned) :
        /\ i < j
        /\ interned[i].tileset_id = T
        /\ interned[j].tileset_id = U
        /\ interned[i].block_index = interned[j].block_index
        /\ interned[i].pos_index = interned[j].pos_index

\* C26: a step of extract_tile_images removes no key of the index and gives
\* no key of the index another image id, whatever the order in which the
\* tile sets are processed.
C26_IndexWriteOnce ==
    [][\A k \in DOMAIN block_pos_to_image_id :
          /\ k \in DOMAIN block_pos_to_image_id'
          /\ block_pos_to_image_id'[k] = block_pos_to_image_id[k]]_vars

\* A finished run in which the keys of tile set 2 were written by its own
\* pass and then by the pass of tile set 6, and the keys of tile set 5 by the
\* pass of tile set 7 and then by its own pass.
C26_Witness ==
    /\ extract_pc = "done"
    /\ InternedInOrder(2, 6)
    /\ InternedInOrder(7, 5)
    /\ \E b \in 0..MaxBlocks :
          /\ {<<5, b, 0>>, <<5, b, 1>>} \subseteq DOMAIN block_pos_to_image_id
          /\ block_pos_to_image_id[<<5, b, 0>>] # block_pos_to_image_id[<<5, b, 1>>]

(***************************************************************************)
(* Properties of the tile decoder                                          *)
(***************************************************************************)
\* Bit p of byte b (0 = LSB), by remainders.
BitOf(b, p) == (b % (2 ^ (p + 1))) \div (2 ^ p)

\* C8: for a 16-byte buffer the decoder returns an 8x8 matrix whose entry at
\* row r, column c is 2 * bit(b2, 7-c) + bit(b1, 7-c), with b1 = byte 2r and
\* b2 = byte 2r+1 of the buffer; every entry is in 0..3.
C8_DecoderCorrect ==
    decode_pc = "decoded" =>
        /\ DOMAIN pixels = 1..8
        /\ \A r \in 0..7 :
              /\ DOMAIN pixels[r + 1] = 1..8
              /\ \A c \in 0..7 :
                    /\ pixels[r + 1][c + 1] =
                          2 * BitOf(tile_data[2 * r + 2], 7 - c)
                            + BitOf(tile_data[2 * r + 1], 7 - c)
                    /\ pixels[r + 1][c + 1] \in 0..3

C8_Witness ==
    /\ decode_pc = "decoded"
    /\ tile_data[7] = 165
    /\ tile_data[8] = 60
    /\ pixels[4] = <<1, 0, 3, 2, 2, 3, 0, 1>>

(***************************************************************************)
(* Properties of the tile instantiation                                    *)
(***************************************************************************)
\* The block of the .blk file at column bx of source row by; 0 past its end.
SourceBlock(bx, by) ==
    IF by * map_constants.width + bx < Len(map_data)
    THEN map_data[by * map_constants.width + bx + 1]
    ELSE 0

\* The tile set under which the images of the map are indexed.
IndexedTileset ==
    IF map_header = <<2>> THEN 6
    ELSE IF map_header = <<5>> THEN 7 ELSE map_header[1]

\* The tiles table has an instance of image image_id at local (lx, ly) of
\* the map that varies.
HasInstance(lx, ly, image_id) ==
    \E i \in 1..Len(tiles_table) :
        /\ tiles_table[i].map_id = map_constants.id
        /\ tiles_table[i].local_x = lx
        /\ tiles_table[i].local_y = ly
        /\ tiles_table[i].tile_image_id = image_id

\* Tile instances were made for the map.
Instantiated ==
    /\ export_pc = "populated"
    /\ map_header # <<>>
    /\ map_data # <<>>

\* Every indexed quadrant of every block of the file is instantiated at
\* column 2*bx + p%2 and at the row that RowOf gives for the block's row.
BlocksPlacedAt(RowOf(_)) ==
    \A bx \in 0..(map_constants.width - 1), by \in 0..(map_constants.height - 1),
       p \in 0..3 :
        <<IndexedTileset, SourceBlock(bx, by), p>> \in DOMAIN block_pos_to_image_id
        => HasInstance(2 * bx + (p % 2), 2 * RowOf(by) + (p \div 2),
                       block_pos_to_image_id[<<IndexedTileset, SourceBlock(bx, by), p>>])

SourceRow(by) == by
MirroredRow(by) == (map_constants.height - 1) - by

\* The .blk file has one byte per block of the map.
WholeFile == Len(map_data) = map_constants.width * map_constants.height

InternedContents == {interned[i].img : i \in 1..Len(interned)}

\* C5: in a run of extract_tile_images, the quadrant image interned last and
\* any quadrant image interned before it have the same image id if and only
\* if their pixels are the same; as this holds after every intern, it holds
\* for every two images of the run.
C5_SameIdIffSamePixels ==
    \A i \in 1..Len(interned) :
        (interned[i].image_id = interned[Len(interned)].image_id)
            <=> (interned[i].img = interned[Len(interned)].img)

\* Two quadrants at different places with the same pixels share an id, and a
\* third with other pixels has another id.
C5_Witness ==
    \E i, j, k \in 1..Len(interned) :
        /\ i < j
        /\ interned[i].img = interned[j].img
        /\ <<interned[i].block_index, interned[i].pos_index>>
              # <<interned[j].block_index, interned[j].pos_index>>
        /\ interned[i].image_id = interned[j].image_id
        /\ interned[k].img # interned[i].img
        /\ interned[k].image_id # interned[i].image_id

\* C6: at every point of a run, the tile_images rows and the saved files
\* are as many as the distinct pixel contents interned so far, and no two
\* rows and no two files hold the same content.
C6_OneCopyPerContent ==
    /\ Len(tile_images) = Cardinality(InternedContents)
    /\ Cardinality(DOMAIN image_files) = Cardinality(InternedContents)
    /\ \A p, q \in DOMAIN image_files :
          image_files[p] = image_files[q] => p = q
    /\ \A a, b \in 1..Len(tile_images) :
          tile_images[a].image_hash = tile_images[b].image_hash => a = b
    /\ \A a \in 1..Len(tile_images) :
          /\ tile_images[a].image_path \in DOMAIN image_files
          /\ image_files[tile_images[a].image_path] \in InternedContents

\* A finished run of at least eight interns with fewer distinct contents
\* than interns, and as many rows and files as contents.
C6_Witness ==
    /\ extract_pc = "done"
    /\ Len(interned) >= 8
    /\ Cardinality(InternedContents) \in 2..(Len(interned) - 4)
    /\ Len(tile_images) = Cardinality(InternedContents)
    /\ Cardinality(DOMAIN image_files) = Cardinality(InternedContents)

\* C7: for every tile set A aliased to a tile set C (5 to 7, 2 to 6),
\* whenever the index has a key of C it has the key of A for the same block
\* and quadrant, with the same image id.
C7_AliasPropagation ==
    \A A \in DOMAIN TILESET_ALIASES :
        \A key \in DOMAIN block_pos_to_image_id :
            key[1] = TILESET_ALIASES[A] =>
                /\ <<A, key[2], key[3]>> \in DOMAIN block_pos_to_image_id
                /\ block_pos_to_image_id[<<A, key[2], key[3]>>]
                      = block_pos_to_image_id[key]

\* Tile set 6 was interned at block 3, quadrant 1, the tilesets table has no
\* tile set 2, and the index resolves (2, 3, 1) to the id of (6, 3, 1).
C7_Witness ==
    /\ \A i \in 1..Len(tilesets) : tilesets[i] # 2
    /\ \E i \in 1..Len(interned) :
          /\ interned[i].tileset_id = 6
          /\ interned[i].block_index = 3
          /\ interned[i].pos_index = 1
          /\ <<2, 3, 1>> \in DOMAIN block_pos_to_image_id
          /\ block_pos_to_image_id[<<2, 3, 1>>] = interned[i].image_id

\* The tile instances of map map_id at local (lx, ly).
InstancesAt(map_id, lx, ly) ==
    {i \in 1..Len(tiles_table) :
        /\ tiles_table[i].map_id = map_id
        /\ tiles_table[i].local_x = lx
        /\ tiles_table[i].local_y = ly}

\* The place of quadrant p of the block of a tiles_raw row has exactly one
\* tile instance and it carries image image_id.
OneInstanceOf(raw, p, image_id) ==
    LET at == InstancesAt(raw.map_id, 2 * raw.x + (p % 2), 2 * raw.y + (p \div 2))
    IN /\ Cardinality(at) = 1
       /\ \A i \in at : tiles_table[i].tile_image_id = image_id

\* C17: after Tile Instantiation, for every block of every map and every
\* quadrant q: with an index entry for (lookup tile set, block, q) the tile
\* instance carries that image; without one it carries the image of
\* quadrant 0 of the block; when that is absent too the position has no tile
\* instance, and this takes nothing away from the other positions of the
\* map and of the other maps.
C17_QuadrantFallback ==
    export_pc = "populated" =>
        \A n \in 1..Len(tiles_raw), p \in 0..3 :
            LET raw == tiles_raw[n]
                T == lookup_tileset_id(raw.tileset_id)
                own == <<T, raw.block_index, p>>
                first == <<T, raw.block_index, 0>>
            IN IF own \in DOMAIN block_pos_to_image_id
               THEN OneInstanceOf(raw, p, block_pos_to_image_id[own])
               ELSE IF first \in DOMAIN block_pos_to_image_id
                    THEN OneInstanceOf(raw, p, block_pos_to_image_id[first])
                    ELSE InstancesAt(raw.map_id, 2 * raw.x + (p % 2),
                                     2 * raw.y + (p \div 2)) = {}

\* A map whose first block has no entry for quadrant 1, which got the image
\* of quadrant 0, and whose second block has no entry for quadrants 3 and 0,
\* which got no tile instance, while quadrant 1 of that block and the four
\* tiles of the other map were created.
C17_Witness ==
    /\ export_pc = "populated"
    /\ Len(tiles_raw) >= 3
    /\ LET a == tiles_raw[1]
           b == tiles_raw[2]
           T == lookup_tileset_id(a.tileset_id)
       IN /\ a.map_id = map_constants.id
          /\ b.map_id = map_constants.id
          /\ <<T, a.block_index, 1>> \notin DOMAIN block_pos_to_image_id
          /\ <<T, a.block_index, 0>> \in DOMAIN block_pos_to_image_id
          /\ OneInstanceOf(a, 1, block_pos_to_image_id[<<T, a.block_index, 0>>])
          /\ <<T, b.block_index, 3>> \notin DOMAIN block_pos_to_image_id
          /\ <<T, b.block_index, 0>> \notin DOMAIN block_pos_to_image_id
          /\ InstancesAt(b.map_id, 2 * b.x + 1, 2 * b.y + 1) = {}
          /\ <<T, b.block_index, 1>> \in DOMAIN block_pos_to_image_id
          /\ InstancesAt(b.map_id, 2 * b.x + 1, 2 * b.y) # {}
    /\ Cardinality({i \in 1..Len(tiles_table) :
                       tiles_table[i].map_id = CompanionMap.id}) = 4

\* The image the index gives quadrant q of the block of a tiles_raw row, with
\* the fallback to quadrant 0: <<id>>, or <<>> without one.
ImageFor(raw, q) ==
    LET T == lookup_tileset_id(raw.tileset_id)
    IN IF <<T, raw.block_index, q>> \in DOMAIN block_pos_to_image_id
       THEN <<block_pos_to_image_id[<<T, raw.block_index, q>>]>>
       ELSE IF <<T, raw.block_index, 0>> \in DOMAIN block_pos_to_image_id
            THEN <<block_pos_to_image_id[<<T, raw.block_index, 0>>]>>
            ELSE <<>>

\* C21: every tile instance is that of a quadrant q of a block at grid
\* position (bx, by) of its map, with local_x = bx*2 + (q mod 2) and
\* local_y = by*2 + (q div 2), and it is created with x = local_x and
\* y = local_y; there is one tile instance for each block and quadrant that
\* has an image.
C21_TileCoordinates ==
    export_pc = "populated" =>
        /\ \A i \in 1..Len(tiles_table) :
              /\ tiles_table[i].x = tiles_table[i].local_x
              /\ tiles_table[i].y = tiles_table[i].local_y
              /\ \E n \in 1..Len(tiles_raw), q \in 0..3 :
                    /\ tiles_raw[n].map_id = tiles_table[i].map_id
                    /\ tiles_table[i].local_x = tiles_raw[n].x * 2 + (q % 2)
                    /\ tiles_table[i].local_y = tiles_raw[n].y * 2 + (q \div 2)
                    /\ ImageFor(tiles_raw[n], q) = <<tiles_table[i].tile_image_id>>
        /\ Len(tiles_table)
              = Cardinality({nq \in (1..Len(tiles_raw)) \X (0..3) :
                                ImageFor(tiles_raw[nq[1]], nq[2]) # <<>>})

\* A map of two columns and three rows of blocks with an image of its own
\* for every quadrant: quadrant 1 of the block at (1, 2) is at local (3, 4)
\* and quadrant 2 of the block at (0, 1) at local (0, 3), with x = local_x
\* and y = local_y.
C21_Witness ==
    /\ export_pc = "populated"
    /\ map_constants.width = 2 /\ map_constants.height = 3
    /\ WholeFile
    /\ map_header = <<0>>
    /\ Cardinality({block_pos_to_image_id[k] : k \in DOMAIN block_pos_to_image_id})
          = Cardinality(IndexKeys)
    /\ \E i, j \in 1..Len(tiles_table) :
          /\ tiles_table[i].map_id = map_constants.id
          /\ tiles_table[i].local_x = 3 /\ tiles_table[i].local_y = 4
          /\ tiles_table[i].x = 3 /\ tiles_table[i].y = 4
          /\ tiles_table[i].tile_image_id
                = block_pos_to_image_id[<<0, SourceBlock(1, 2), 1>>]
          /\ tiles_table[j].map_id = map_constants.id
          /\ tiles_table[j].local_x = 0 /\ tiles_table[j].local_y = 3
          /\ tiles_table[j].tile_image_id
                = block_pos_to_image_id[<<0, SourceBlock(0, 1), 2>>]

\* The image ids of the tile instances of a map at the place of quadrant q
\* of the block of a tiles_raw row.
ImagesAt(raw, q) ==
    {tiles_table[i].tile_image_id :
        i \in InstancesAt(raw.map_id, 2 * raw.x + (q % 2), 2 * raw.y + (q \div 2))}

\* The image ids a map declaring tile set T would get for the block of a
\* tiles_raw row and quadrant q.
ImagesWith(T, raw, q) ==
    LET got == map_tile(maps_table[1], map_positions,
                        [raw EXCEPT !.tileset_id = T], q, block_pos_to_image_id)
    IN {got[i].tile_image_id : i \in DOMAIN got}

\* C22: a map that declares an alias tile set (5 or 2) has, for every block
\* and quadrant, the image a map declaring the canonical tile set (7 or 6)
\* would get for that block index and quadrant, although the index has no
\* key of the alias tile set itself.
C22_AliasResolvedLookup ==
    (export_pc = "populated" /\ map_header \in {<<5>>, <<2>>}) =>
        \A n \in 1..Len(tiles_raw), q \in 0..3 :
            tiles_raw[n].map_id = map_constants.id =>
                /\ tiles_raw[n].tileset_id = map_header[1]
                /\ ImagesAt(tiles_raw[n], q)
                      = ImagesWith(TILESET_ALIASES[map_header[1]], tiles_raw[n], q)

\* A map declaring tile set 5, absent from the index, whose first block has
\* at quadrant 3 the image the index holds for tile set 7.
C22_Witness ==
    /\ export_pc = "populated"
    /\ map_header = <<5>>
    /\ tiles_raw # <<>>
    /\ tiles_raw[1].map_id = map_constants.id
    /\ \A k \in DOMAIN block_pos_to_image_id : k[1] # 5
    /\ <<7, tiles_raw[1].block_index, 3>> \in DOMAIN block_pos_to_image_id
    /\ block_pos_to_image_id[<<7, tiles_raw[1].block_index, 3>>]
          # block_pos_to_image_id[<<7, tiles_raw[1].block_index, 0>>]
    /\ ImagesAt(tiles_raw[1], 3)
          = {block_pos_to_image_id[<<7, tiles_raw[1].block_index, 3>>]}

\* The colour quadrant q of a block has at pixel (px, py) of its sub-cell i
\* (0..3 in row-major order): that of the tile at row 2*(q div 2) + i div 2
\* and column 2*(q mod 2) + i mod 2 of the block, white when the block has
\* no such entry or the tile no data.
ExpectedColour(block_data, tile_rows, q, i, px, py) ==
    LET row == 2 * (q \div 2) + (i \div 2)
        col == 2 * (q % 2) + (i % 2)
        tile == IF row * 4 + col < Len(block_data)
                THEN TileGet(tile_rows, block_data[row * 4 + col + 1])
                ELSE <<>>
    IN IF tile = <<>> THEN 255
       ELSE palette[2 * BitOf(tile[2 * py + 2], 7 - px)
                      + BitOf(tile[2 * py + 1], 7 - px) + 1]

\* The image interned last shows, in the sub-cell at pixel offset
\* (8 * (i mod 2), 8 * (i div 2)), the i-th tile of its quadrant.
LastImageComposed ==
    interned # <<>> =>
        LET e == interned[Len(interned)]
            query_tileset_id == QueryTilesetId(e.tileset_id)
        IN \A i \in 0..3, px \in 0..7, py \in 0..7 :
              e.img[8 * (i \div 2) + py + 1][8 * (i % 2) + px + 1]
                 = ExpectedColour(RowsOf(blocksets, query_tileset_id)[e.block_index + 1],
                                  RowsOf(tileset_tiles, query_tileset_id),
                                  e.pos_index, i, px, py)

\* C23: the images come in fours, quadrants 0, 1, 2, 3 of one block of one
\* tile set, a finished run has made four for every block it took up; and
\* quadrant q is made of the tiles at rows 2*(q div 2), 2*(q div 2)+1 and
\* columns 2*(q mod 2), 2*(q mod 2)+1 of the block, put in row-major order at
\* the pixel offsets (0,0), (8,0), (0,8), (8,8) of the 16x16 image.  Stated
\* of the image interned last; every image is the last one in some state.
C23_QuadrantComposition ==
    /\ \A n \in 1..Len(interned) :
          /\ interned[n].pos_index = (n - 1) % 4
          /\ (n - 1) % 4 # 0 =>
                /\ interned[n].tileset_id = interned[n - 1].tileset_id
                /\ interned[n].block_index = interned[n - 1].block_index
          /\ ((n - 1) % 4 = 0 /\ n > 1) =>
                <<interned[n].tileset_id, interned[n].block_index>>
                   # <<interned[n - 1].tileset_id, interned[n - 1].block_index>>
    /\ extract_pc = "done" => Len(interned) % 4 = 0
    /\ LastImageComposed

\* A finished run has made the four images of a block whose quadrants 1 and
\* 2 differ: the top-right pixel block of quadrant 1 shows another tile than
\* that of quadrant 2.
C23_Witness ==
    /\ extract_pc = "done"
    /\ Len(interned) >= 8
    /\ \E n \in 1..Len(interned) :
          /\ interned[n].pos_index = 1
          /\ interned[n + 1].pos_index = 2
          /\ interned[n].img # interned[n + 1].img
          /\ interned[n].img # BlankImage

\* The tile sets that have a tile row whose buffer is cut short: 1 to 15
\* bytes.
ShortTileSets ==
    {tileset_id \in DOMAIN tileset_tiles :
        \E i \in 1..Len(tileset_tiles[tileset_id]) :
            Len(tileset_tiles[tileset_id][i]) \in 1..15}

\* C16: a tile whose buffer is shorter than 16 bytes fails alone: the
\* extraction skips it and goes on with the other tiles, quadrants, blocks
\* and tile sets, so a run over tile sets with such a tile is never stopped
\* by an exception.
C16_MalformedTileIsLocal ==
    ShortTileSets # {} => extract_pc # "raised"

(***************************************************************************)
(* Properties of the object coordinates                                    *)
(***************************************************************************)
\* Object o has global minus local coordinates equal to d.
ObjectOffsetIs(o, d) ==
    /\ o.x # NULL /\ o.y # NULL
    /\ o.x[1] - o.local_x = d[1]
    /\ o.y[1] - o.local_y = d[2]

\* The global-minus-local offsets of the tiles of map m: one for a map the
\* solver moved as a whole, none for a map without tiles.
TileOffsets(m) == {<<r.x - r.local_x, r.y - r.local_y>> : r \in tiles[m]}

\* C20: after update_object_coordinates every object on an overworld map has
\* (x - local_x, y - local_y) equal to the global-minus-local offset of the
\* tiles of its map, and every object on any other map has
\* (x, y) = (local_x, local_y).
C20_ObjectsFollowTiles ==
    object_pc = "updated" =>
        \A i \in DOMAIN objects :
            LET o == objects[i]
            IN IF is_overworld[o.map_id] = 1
               THEN \A d \in TileOffsets(o.map_id) : ObjectOffsetIs(o, d)
               ELSE ObjectOffsetIs(o, <<0, 0>>)

\* What the update does bring about: the objects of an overworld map that
\* has a tile at local (0, 0) follow the tiles, the objects of the other
\* overworld maps keep the x and y they had, and those of any other map have
\* their local coordinates.
ObjectsFollowAnchoredTiles ==
    object_pc = "updated" =>
        \A i \in DOMAIN objects :
            LET o == objects[i]
            IN IF is_overworld[o.map_id] = 1
               THEN IF \E r \in tiles[o.map_id] : r.local_x = 0 /\ r.local_y = 0
                    THEN \A d \in TileOffsets(o.map_id) : ObjectOffsetIs(o, d)
                    ELSE o.x \in {NULL, <<9>>} /\ o.y = o.x
               ELSE ObjectOffsetIs(o, <<0, 0>>)

\* C27: in every state of every run, the first or a later one, the tile
\* instances of a map all have the same (x - local_x, y - local_y): the
\* solver moves a map as a whole.
C27_RigidTranslation ==
    \A m \in MapIds : Cardinality(TileOffsets(m)) <= 1

\* A second run has ended; map 0, whose first block column has no tiles, is
\* two tiles to the left of its local coordinates, and map 1 has moved too.
C27_Witness ==
    /\ pc = "done"
    /\ runs = 2
    /\ TileOffsets(0) = {<<0 - BLOCK_SIZE, 0>>}
    /\ Cardinality(tiles[1]) > 1
    /\ \E d \in TileOffsets(1) : d # <<0, 0>>

\* The tiles_raw rows of map m.
RawRowsOf(m) == {n \in 1..Len(tiles_raw) : tiles_raw[n].map_id = m}

\* The tiles_raw rows of a maps row are its width * height grid: one row per
\* block position; for the map that varies, with the byte of the .blk file at
\* that position, or 0 past the end of the file.
GridComplete(row) ==
    /\ Cardinality(RawRowsOf(row.id)) = row.width * row.height
    /\ \A bx \in 0..(row.width - 1), by \in 0..(row.height - 1) :
          \E n \in RawRowsOf(row.id) :
              /\ tiles_raw[n].x = bx
              /\ tiles_raw[n].y = by
              /\ row.id = map_constants.id =>
                    tiles_raw[n].block_index = SourceBlock(bx, by)

\* Every tile instance of a maps row is inside the 2*width x 2*height grid
\* and alone at its local coordinates.
OneTilePerCell(row) ==
    \A i \in 1..Len(tiles_table) :
        tiles_table[i].map_id = row.id =>
            /\ tiles_table[i].local_x \in 0..(2 * row.width - 1)
            /\ tiles_table[i].local_y \in 0..(2 * row.height - 1)
            /\ InstancesAt(row.id, tiles_table[i].local_x,
                           tiles_table[i].local_y) = {i}

\* C28 as stated: every map of width w and height h has exactly w*h tiles_raw
\* rows, the .blk file padded with 0 or truncated, and at most one tile
\* instance per local cell, inside the 2w x 2h grid.
C28_GridOfEveryMap ==
    export_pc = "populated" =>
        \A i \in DOMAIN maps_table :
            GridComplete(maps_table[i]) /\ OneTilePerCell(maps_table[i])

\* C28 as the code has it: a map with a tile set and a .blk file of one byte
\* or more has exactly w*h tiles_raw rows, the file padded with 0 or
\* truncated; a map without a tile set or with an empty .blk file has none;
\* every map has at most one tile instance per local cell, inside the
\* 2w x 2h grid.
C28_OneTilePerCell ==
    export_pc = "populated" =>
        \A i \in DOMAIN maps_table :
            LET row == maps_table[i]
            IN /\ IF row.tileset_id = <<>> \/ row.blk_data = <<>>
                  THEN RawRowsOf(row.id) = {}
                  ELSE GridComplete(row)
               /\ OneTilePerCell(row)

\* A 2x3 map whose .blk file is one byte long was truncated, a tile instance
\* stands at every one of its 4 x 6 cells.
C28_Witness ==
    /\ export_pc = "populated"
    /\ map_header # <<>>
    /\ map_constants.width = 2
    /\ map_constants.height = 3
    /\ Len(map_data) = 7
    /\ Cardinality(RawRowsOf(map_constants.id)) = 6
    /\ \A lx \in 0..3, ly \in 0..5 :
          Cardinality(InstancesAt(map_constants.id, lx, ly)) = 1

\* C29: with every map having all of its tiles, every map the export solver
\* placed in a run from the root has, in the viewer's calculate_map_positions
\* for the same maps and connections, the position that is the offset the
\* export solver gave it.
C29_SolversAgree ==
    (viewer_pc = "calculated" /\ pc = "done") =>
        \A i \in 1..Len(printed) :
            viewer_map_positions[printed[i].map_id] = OffsetOf(printed[i])

\* The maps that have a maps row and no tile instance.
TilelessMaps == {m \in maps : tiles[m] = {}}

\* C30: when a map that has a maps row, is connected to a placed map and has
\* no tile instances, the run raises no exception, and when it has ended
\* every other map reachable from the root is placed.
C30_TilelessMapTolerated ==
    (TilelessMaps \cap Reachable # {}) =>
        /\ pc # "crashed"
        /\ pc = "done" => (Reachable \cap maps) \ TilelessMaps \subseteq processed_maps

====
